---- MODULE Spec2Model ----
(***************************************************************************)
(* A model of the detection-and-classification engine of                   *)
(* src/diagnose_website.py: diagnose_site as a state machine over the      *)
(* browser session it drives, and the text functions it calls (the regular *)
(* expression scans over the rendered markup) as operators.                *)
(*                                                                         *)
(* Text is a sequence of one-character strings, so that matching, slicing  *)
(* and lower-casing are computed and not assumed.                          *)
(***************************************************************************)
EXTENDS Integers, Sequences, FiniteSets, TLC

(***************************************************************************)
(* Characters and strings                                                  *)
(***************************************************************************)

Digits == {"0", "1", "2", "3", "4", "5", "6", "7", "8", "9"}

LowerLetters ==
  {"a", "b", "c", "d", "e", "f", "g", "h", "i", "j", "k", "l", "m",
   "n", "o", "p", "q", "r", "s", "t", "u", "v", "w", "x", "y", "z"}

\* str.lower() on one character: the upper-case letters and their images
UpperToLower ==
  [c \in {"A", "B", "C", "D", "E", "F", "G", "H", "I", "J", "K", "L", "M",
          "N", "O", "P", "Q", "R", "S", "T", "U", "V", "W", "X", "Y", "Z"} |->
     CASE c = "A" -> "a" [] c = "B" -> "b" [] c = "C" -> "c" [] c = "D" -> "d"
       [] c = "E" -> "e" [] c = "F" -> "f" [] c = "G" -> "g" [] c = "H" -> "h"
       [] c = "I" -> "i" [] c = "J" -> "j" [] c = "K" -> "k" [] c = "L" -> "l"
       [] c = "M" -> "m" [] c = "N" -> "n" [] c = "O" -> "o" [] c = "P" -> "p"
       [] c = "Q" -> "q" [] c = "R" -> "r" [] c = "S" -> "s" [] c = "T" -> "t"
       [] c = "U" -> "u" [] c = "V" -> "v" [] c = "W" -> "w" [] c = "X" -> "x"
       [] c = "Y" -> "y" [] c = "Z" -> "z"]

LowerChar(c) == IF c \in DOMAIN UpperToLower THEN UpperToLower[c] ELSE c

\* str.lower()
Lower(s) == [i \in 1..Len(s) |-> LowerChar(s[i])]

\* \s of the re module (the ASCII white space a markup can hold)
Spaces == {" ", "\t", "\n", "\r", "\f"}

\* \w of the re module, on ASCII text
IsWordChar(c) ==
  LowerChar(c) \in LowerLetters \cup Digits \cup {"_"}

Min(a, b) == IF a < b THEN a ELSE b

Max(a, b) == IF a > b THEN a ELSE b

\* s[a:b] of Python for 0 <= a, with Python's clipping at len(s)
Slice(s, a, b) == SubSeq(s, a + 1, Min(b, Len(s)))

\* whether sub occurs in s at 1-based position i
OccursAt(sub, s, i) ==
  /\ i + Len(sub) - 1 <= Len(s)
  /\ \A k \in 1..Len(sub) : s[i + k - 1] = sub[k]

\* sub in s
Contains(sub, s) == \E i \in 1..(Len(s) + 1) : OccursAt(sub, s, i)

(***************************************************************************)
(* Regular expressions, as the re module matches them: the terms, and the  *)
(* end of the match a backtracking matcher reports from a position.        *)
(***************************************************************************)

Str(cs) == [t |-> "str", cs |-> cs]

In(set) == [t |-> "in", set |-> set]

NotIn(set) == [t |-> "notin", set |-> set]

AnyChar == [t |-> "any"]

Cat(parts) == [t |-> "cat", parts |-> parts]

Alt(parts) == [t |-> "alt", parts |-> parts]

Opt(r) == [t |-> "opt", r |-> r]

Star(r) == [t |-> "star", r |-> r]

LazyStar(r) == [t |-> "lazystar", r |-> r]

Plus(r) == [t |-> "plus", r |-> r]

WordB == [t |-> "wordb"]

Bol == [t |-> "bol"]

\* \b at position i (the next character to read is s[i])
AtWordBoundary(s, i) ==
  LET before == i > 1 /\ IsWordChar(s[i - 1])
      after == i <= Len(s) /\ IsWordChar(s[i])
  IN  before # after

\* whether the one-character term r (a class or the dot) matches c under
\* re.IGNORECASE
CharMatches(r, c) ==
  CASE r.t = "in" -> c \in r.set \/ LowerChar(c) \in r.set
    [] r.t = "notin" -> ~(c \in r.set \/ LowerChar(c) \in r.set)
    [] r.t = "any" -> c # "\n"

\* the number of consecutive characters from position i that r matches
RunLen(r, s, i) ==
  CHOOSE n \in 0..(Len(s) + 1 - i) :
    /\ \A j \in 0..(n - 1) : CharMatches(r, s[i + j])
    /\ i + n > Len(s) \/ ~CharMatches(r, s[i + n])

\* the least element of a non-empty set of numbers
Least(S) == CHOOSE x \in S : \A y \in S : x <= y

\* the greatest element of a non-empty set of numbers
Greatest(S) == CHOOSE x \in S : \A y \in S : x >= y

\* no match
Fail == -1

RECURSIVE MatchEnd(_, _, _)
\* The end of the match a backtracking matcher finds, under re.IGNORECASE,
\* for the terms of todo in sequence from position i (the next character to
\* read is s[i]); Fail if there is none.  The repetitions of the source's
\* patterns are all of one-character terms.
MatchEnd(todo, s, i) ==
  IF todo = <<>> THEN i
  ELSE
    LET r == Head(todo)
        rest == Tail(todo)
    IN  CASE r.t = "str" ->
               IF /\ i + Len(r.cs) - 1 <= Len(s)
                  /\ \A k \in 1..Len(r.cs) :
                       LowerChar(s[i + k - 1]) = LowerChar(r.cs[k])
               THEN MatchEnd(rest, s, i + Len(r.cs)) ELSE Fail
          [] r.t \in {"in", "notin", "any"} ->
               IF i <= Len(s) /\ CharMatches(r, s[i])
               THEN MatchEnd(rest, s, i + 1) ELSE Fail
          [] r.t = "cat" -> MatchEnd(r.parts \o rest, s, i)
          [] r.t = "alt" ->
               \* the leftmost alternative with which the rest matches
               LET ok == {k \in 1..Len(r.parts) :
                            MatchEnd(<<r.parts[k]>> \o rest, s, i) # Fail}
               IN  IF ok = {} THEN Fail
                   ELSE MatchEnd(<<r.parts[Least(ok)]>> \o rest, s, i)
          [] r.t = "opt" ->
               \* greedy: with r first, then without
               LET with == MatchEnd(<<r.r>> \o rest, s, i)
               IN  IF with # Fail THEN with ELSE MatchEnd(rest, s, i)
          [] r.t = "lazystar" ->
               \* r*?: the fewest repetitions with which the rest matches
               LET ok == {n \in 0..RunLen(r.r, s, i) : MatchEnd(rest, s, i + n) # Fail}
               IN  IF ok = {} THEN Fail ELSE MatchEnd(rest, s, i + Least(ok))
          [] r.t = "star" ->
               \* r*: the most repetitions with which the rest matches
               LET ok == {n \in 0..RunLen(r.r, s, i) : MatchEnd(rest, s, i + n) # Fail}
               IN  IF ok = {} THEN Fail ELSE MatchEnd(rest, s, i + Greatest(ok))
          [] r.t = "plus" ->
               LET ok == {n \in 1..RunLen(r.r, s, i) : MatchEnd(rest, s, i + n) # Fail}
               IN  IF ok = {} THEN Fail ELSE MatchEnd(rest, s, i + Greatest(ok))
          [] r.t = "wordb" ->
               IF AtWordBoundary(s, i) THEN MatchEnd(rest, s, i) ELSE Fail
          [] r.t = "bol" -> IF i = 1 THEN MatchEnd(rest, s, i) ELSE Fail

NoMatch == [start |-> -1, end |-> -1]

\* the match at the least of the positions a match starts at
LeftmostMatch(r, s, starts) ==
  IF starts = {} THEN NoMatch
  ELSE [start |-> Least(starts) - 1,
        end |-> MatchEnd(<<r>>, s, Least(starts)) - 1]

\* re.search from position i: the leftmost match, start and end as the
\* 0-based match.start() and match.end() of Python; NoMatch if there is none
SearchFrom(r, s, i) ==
  LeftmostMatch(r, s, {j \in i..(Len(s) + 1) : MatchEnd(<<r>>, s, j) # Fail})

Search(r, s) == SearchFrom(r, s, 1)

RECURSIVE FindIterFrom(_, _, _)
\* the match m, and the matches after it (one character further after an
\* empty match)
FindIterAfter(r, s, m) ==
  IF m = NoMatch THEN <<>>
  ELSE <<m>> \o FindIterFrom(r, s, IF m.end > m.start THEN m.end + 1
                                                      ELSE m.end + 2)

\* re.finditer: the non-overlapping matches from the left
FindIterFrom(r, s, i) == FindIterAfter(r, s, SearchFrom(r, s, i))

FindIter(r, s) == FindIterFrom(r, s, 1)

(***************************************************************************)
(* The vulnerability-signature catalog (the regular expressions are the    *)
(* terms re compiles the source patterns to)                               *)
(***************************************************************************)

VULNERABLE_PATTERNS ==
  <<
   \* nextjs_old: (?:_next/static/|next\.js[^/]*?@?)(1\.[0-9]\.|^1[0-2]\.)
   [key |-> <<"n", "e", "x", "t", "j", "s", "_", "o", "l", "d">>,
    pattern |->
      Cat(<<Alt(<<Str(<<"_", "n", "e", "x", "t", "/", "s", "t", "a", "t", "i", "c", "/">>), Cat(<<Str(<<"n", "e", "x", "t", ".", "j", "s">>), LazyStar(NotIn({"/"})), Opt(Str(<<"@">>))>>)>>),
            Alt(<<Cat(<<Str(<<"1", ".">>), In(Digits), Str(<<".">>)>>), Cat(<<Bol, Str(<<"1">>), In({"0", "1", "2"}), Str(<<".">>)>>)>>)>>)],
   \* angularjs_v1_5: angular(?:js)?(?:-|\.min)?\.js\?v?=1\.5
   [key |-> <<"a", "n", "g", "u", "l", "a", "r", "j", "s", "_", "v", "1", "_", "5">>,
    pattern |->
      Cat(<<Str(<<"a", "n", "g", "u", "l", "a", "r">>),
            Opt(Str(<<"j", "s">>)),
            Opt(Alt(<<Str(<<"-">>), Str(<<".", "m", "i", "n">>)>>)),
            Str(<<".", "j", "s", "?">>),
            Opt(Str(<<"v">>)),
            Str(<<"=", "1", ".", "5">>)>>)],
   \* angularjs_v1_4: angular(?:js)?(?:-|\.min)?\.js\?v?=1\.4
   [key |-> <<"a", "n", "g", "u", "l", "a", "r", "j", "s", "_", "v", "1", "_", "4">>,
    pattern |->
      Cat(<<Str(<<"a", "n", "g", "u", "l", "a", "r">>),
            Opt(Str(<<"j", "s">>)),
            Opt(Alt(<<Str(<<"-">>), Str(<<".", "m", "i", "n">>)>>)),
            Str(<<".", "j", "s", "?">>),
            Opt(Str(<<"v">>)),
            Str(<<"=", "1", ".", "4">>)>>)],
   \* angularjs_v1_3: angular(?:js)?(?:-|\.min)?\.js\?v?=1\.3
   [key |-> <<"a", "n", "g", "u", "l", "a", "r", "j", "s", "_", "v", "1", "_", "3">>,
    pattern |->
      Cat(<<Str(<<"a", "n", "g", "u", "l", "a", "r">>),
            Opt(Str(<<"j", "s">>)),
            Opt(Alt(<<Str(<<"-">>), Str(<<".", "m", "i", "n">>)>>)),
            Str(<<".", "j", "s", "?">>),
            Opt(Str(<<"v">>)),
            Str(<<"=", "1", ".", "3">>)>>)],
   \* angularjs_v1_2: angular(?:js)?(?:-|\.min)?\.js\?v?=1\.2
   [key |-> <<"a", "n", "g", "u", "l", "a", "r", "j", "s", "_", "v", "1", "_", "2">>,
    pattern |->
      Cat(<<Str(<<"a", "n", "g", "u", "l", "a", "r">>),
            Opt(Str(<<"j", "s">>)),
            Opt(Alt(<<Str(<<"-">>), Str(<<".", "m", "i", "n">>)>>)),
            Str(<<".", "j", "s", "?">>),
            Opt(Str(<<"v">>)),
            Str(<<"=", "1", ".", "2">>)>>)],
   \* angularjs_v1_1: angular(?:js)?(?:-|\.min)?\.js\?v?=1\.1
   [key |-> <<"a", "n", "g", "u", "l", "a", "r", "j", "s", "_", "v", "1", "_", "1">>,
    pattern |->
      Cat(<<Str(<<"a", "n", "g", "u", "l", "a", "r">>),
            Opt(Str(<<"j", "s">>)),
            Opt(Alt(<<Str(<<"-">>), Str(<<".", "m", "i", "n">>)>>)),
            Str(<<".", "j", "s", "?">>),
            Opt(Str(<<"v">>)),
            Str(<<"=", "1", ".", "1">>)>>)],
   \* angularjs_v1_0: angular(?:js)?(?:-|\.min)?\.js\?v?=1\.0
   [key |-> <<"a", "n", "g", "u", "l", "a", "r", "j", "s", "_", "v", "1", "_", "0">>,
    pattern |->
      Cat(<<Str(<<"a", "n", "g", "u", "l", "a", "r">>),
            Opt(Str(<<"j", "s">>)),
            Opt(Alt(<<Str(<<"-">>), Str(<<".", "m", "i", "n">>)>>)),
            Str(<<".", "j", "s", "?">>),
            Opt(Str(<<"v">>)),
            Str(<<"=", "1", ".", "0">>)>>)],
   \* angularjs_old: angular(?:js)?(?:-|\.min)?\.js\?v?=1\.[0-6]
   [key |-> <<"a", "n", "g", "u", "l", "a", "r", "j", "s", "_", "o", "l", "d">>,
    pattern |->
      Cat(<<Str(<<"a", "n", "g", "u", "l", "a", "r">>),
            Opt(Str(<<"j", "s">>)),
            Opt(Alt(<<Str(<<"-">>), Str(<<".", "m", "i", "n">>)>>)),
            Str(<<".", "j", "s", "?">>),
            Opt(Str(<<"v">>)),
            Str(<<"=", "1", ".">>),
            In({"0", "1", "2", "3", "4", "5", "6"})>>)],
   \* jquery_old: jquery[.-](?:1\.([0-9]|1[0-1]))(?:\.|\b)
   [key |-> <<"j", "q", "u", "e", "r", "y", "_", "o", "l", "d">>,
    pattern |->
      Cat(<<Str(<<"j", "q", "u", "e", "r", "y">>),
            In({"."} \cup {"-"}),
            Str(<<"1", ".">>),
            Alt(<<In(Digits), Cat(<<Str(<<"1">>), In({"0", "1"})>>)>>),
            Alt(<<Str(<<".">>), WordB>>)>>)],
   \* bootstrap_old: bootstrap(?:-|\.min)?\.(?:js|css)[^/]*?3\.[0-4]
   [key |-> <<"b", "o", "o", "t", "s", "t", "r", "a", "p", "_", "o", "l", "d">>,
    pattern |->
      Cat(<<Str(<<"b", "o", "o", "t", "s", "t", "r", "a", "p">>),
            Opt(Alt(<<Str(<<"-">>), Str(<<".", "m", "i", "n">>)>>)),
            Str(<<".">>),
            Alt(<<Str(<<"j", "s">>), Str(<<"c", "s", "s">>)>>),
            LazyStar(NotIn({"/"})),
            Str(<<"3", ".">>),
            In({"0", "1", "2", "3", "4"})>>)],
   \* react_old: react(?:-dom)?(?:-|\.min)?\.js[^/]*?(?:0\.|1[0-5]\.|16\.[0-7]\b)
   [key |-> <<"r", "e", "a", "c", "t", "_", "o", "l", "d">>,
    pattern |->
      Cat(<<Str(<<"r", "e", "a", "c", "t">>),
            Opt(Str(<<"-", "d", "o", "m">>)),
            Opt(Alt(<<Str(<<"-">>), Str(<<".", "m", "i", "n">>)>>)),
            Str(<<".", "j", "s">>),
            LazyStar(NotIn({"/"})),
            Alt(<<Str(<<"0", ".">>), Cat(<<Str(<<"1">>), In({"0", "1", "2", "3", "4", "5"}), Str(<<".">>)>>), Cat(<<Str(<<"1", "6", ".">>), In({"0", "1", "2", "3", "4", "5", "6", "7"}), WordB>>)>>)>>)],
   \* vue_old: vue(?:-|\.min)?\.js[^/]*?(?:0\.|1\.|2\.[0-5])
   [key |-> <<"v", "u", "e", "_", "o", "l", "d">>,
    pattern |->
      Cat(<<Str(<<"v", "u", "e">>),
            Opt(Alt(<<Str(<<"-">>), Str(<<".", "m", "i", "n">>)>>)),
            Str(<<".", "j", "s">>),
            LazyStar(NotIn({"/"})),
            Alt(<<Str(<<"0", ".">>), Str(<<"1", ".">>), Cat(<<Str(<<"2", ".">>), In({"0", "1", "2", "3", "4", "5"})>>)>>)>>)],
   \* backbone_old: backbone(?:-|\.min)?\.js[^/]*?(?:0\.|1\.[0-3])
   [key |-> <<"b", "a", "c", "k", "b", "o", "n", "e", "_", "o", "l", "d">>,
    pattern |->
      Cat(<<Str(<<"b", "a", "c", "k", "b", "o", "n", "e">>),
            Opt(Alt(<<Str(<<"-">>), Str(<<".", "m", "i", "n">>)>>)),
            Str(<<".", "j", "s">>),
            LazyStar(NotIn({"/"})),
            Alt(<<Str(<<"0", ".">>), Cat(<<Str(<<"1", ".">>), In({"0", "1", "2", "3"})>>)>>)>>)],
   \* ember_old: \bember(?:-|\.min)?\.js[^/]*?(?:0\.|1\.|2\.[0-1][0-7])
   [key |-> <<"e", "m", "b", "e", "r", "_", "o", "l", "d">>,
    pattern |->
      Cat(<<WordB,
            Str(<<"e", "m", "b", "e", "r">>),
            Opt(Alt(<<Str(<<"-">>), Str(<<".", "m", "i", "n">>)>>)),
            Str(<<".", "j", "s">>),
            LazyStar(NotIn({"/"})),
            Alt(<<Str(<<"0", ".">>), Str(<<"1", ".">>), Cat(<<Str(<<"2", ".">>), In({"0", "1"}), In({"0", "1", "2", "3", "4", "5", "6", "7"})>>)>>)>>)],
   \* knockout_old: knockout(?:-|\.min)?\.js[^/]*?(?:0\.|1\.|2\.|3\.[0-4])
   [key |-> <<"k", "n", "o", "c", "k", "o", "u", "t", "_", "o", "l", "d">>,
    pattern |->
      Cat(<<Str(<<"k", "n", "o", "c", "k", "o", "u", "t">>),
            Opt(Alt(<<Str(<<"-">>), Str(<<".", "m", "i", "n">>)>>)),
            Str(<<".", "j", "s">>),
            LazyStar(NotIn({"/"})),
            Alt(<<Str(<<"0", ".">>), Str(<<"1", ".">>), Str(<<"2", ".">>), Cat(<<Str(<<"3", ".">>), In({"0", "1", "2", "3", "4"})>>)>>)>>)],
   \* dojo_old: dojo(?:-|\.min)?\.js[^/]*?(?:0\.|1\.[0-1][0-3])
   [key |-> <<"d", "o", "j", "o", "_", "o", "l", "d">>,
    pattern |->
      Cat(<<Str(<<"d", "o", "j", "o">>),
            Opt(Alt(<<Str(<<"-">>), Str(<<".", "m", "i", "n">>)>>)),
            Str(<<".", "j", "s">>),
            LazyStar(NotIn({"/"})),
            Alt(<<Str(<<"0", ".">>), Cat(<<Str(<<"1", ".">>), In({"0", "1"}), In({"0", "1", "2", "3"})>>)>>)>>)],
   \* prototype_old: prototype(?:-|\.min)?\.js[^/]*?(?:0\.|1\.[0-6]\.|1\.7\.[0-2])
   [key |-> <<"p", "r", "o", "t", "o", "t", "y", "p", "e", "_", "o", "l", "d">>,
    pattern |->
      Cat(<<Str(<<"p", "r", "o", "t", "o", "t", "y", "p", "e">>),
            Opt(Alt(<<Str(<<"-">>), Str(<<".", "m", "i", "n">>)>>)),
            Str(<<".", "j", "s">>),
            LazyStar(NotIn({"/"})),
            Alt(<<Str(<<"0", ".">>), Cat(<<Str(<<"1", ".">>), In({"0", "1", "2", "3", "4", "5", "6"}), Str(<<".">>)>>), Cat(<<Str(<<"1", ".", "7", ".">>), In({"0", "1", "2"})>>)>>)>>)],
   \* mootools_old: mootools(?:-|\.min)?\.js[^/]*?(?:0\.|1\.[0-5])
   [key |-> <<"m", "o", "o", "t", "o", "o", "l", "s", "_", "o", "l", "d">>,
    pattern |->
      Cat(<<Str(<<"m", "o", "o", "t", "o", "o", "l", "s">>),
            Opt(Alt(<<Str(<<"-">>), Str(<<".", "m", "i", "n">>)>>)),
            Str(<<".", "j", "s">>),
            LazyStar(NotIn({"/"})),
            Alt(<<Str(<<"0", ".">>), Cat(<<Str(<<"1", ".">>), In({"0", "1", "2", "3", "4", "5"})>>)>>)>>)],
   \* yui_old: yui(?:-|\.min)?\.js[^/]*?(?:0\.|1\.|2\.|3\.[0-1][0-7])
   [key |-> <<"y", "u", "i", "_", "o", "l", "d">>,
    pattern |->
      Cat(<<Str(<<"y", "u", "i">>),
            Opt(Alt(<<Str(<<"-">>), Str(<<".", "m", "i", "n">>)>>)),
            Str(<<".", "j", "s">>),
            LazyStar(NotIn({"/"})),
            Alt(<<Str(<<"0", ".">>), Str(<<"1", ".">>), Str(<<"2", ".">>), Cat(<<Str(<<"3", ".">>), In({"0", "1"}), In({"0", "1", "2", "3", "4", "5", "6", "7"})>>)>>)>>)],
   \* extjs_old: ext(?:-|\.min)?\.js[^/]*?(?:0\.|1\.|2\.|3\.|4\.|5\.|6\.[0-1])
   [key |-> <<"e", "x", "t", "j", "s", "_", "o", "l", "d">>,
    pattern |->
      Cat(<<Str(<<"e", "x", "t">>),
            Opt(Alt(<<Str(<<"-">>), Str(<<".", "m", "i", "n">>)>>)),
            Str(<<".", "j", "s">>),
            LazyStar(NotIn({"/"})),
            Alt(<<Str(<<"0", ".">>), Str(<<"1", ".">>), Str(<<"2", ".">>), Str(<<"3", ".">>), Str(<<"4", ".">>), Str(<<"5", ".">>), Cat(<<Str(<<"6", ".">>), In({"0", "1"})>>)>>)>>)],
   \* underscore_old: underscore(?:-|\.min)?\.js[^/]*?(?:0\.|1\.[0-8])
   [key |-> <<"u", "n", "d", "e", "r", "s", "c", "o", "r", "e", "_", "o", "l", "d">>,
    pattern |->
      Cat(<<Str(<<"u", "n", "d", "e", "r", "s", "c", "o", "r", "e">>),
            Opt(Alt(<<Str(<<"-">>), Str(<<".", "m", "i", "n">>)>>)),
            Str(<<".", "j", "s">>),
            LazyStar(NotIn({"/"})),
            Alt(<<Str(<<"0", ".">>), Cat(<<Str(<<"1", ".">>), In({"0", "1", "2", "3", "4", "5", "6", "7", "8"})>>)>>)>>)],
   \* lodash_old: lodash(?:-|\.min)?\.js[^/]*?(?:0\.|1\.|2\.|3\.|4\.[0-1][0-6])
   [key |-> <<"l", "o", "d", "a", "s", "h", "_", "o", "l", "d">>,
    pattern |->
      Cat(<<Str(<<"l", "o", "d", "a", "s", "h">>),
            Opt(Alt(<<Str(<<"-">>), Str(<<".", "m", "i", "n">>)>>)),
            Str(<<".", "j", "s">>),
            LazyStar(NotIn({"/"})),
            Alt(<<Str(<<"0", ".">>), Str(<<"1", ".">>), Str(<<"2", ".">>), Str(<<"3", ".">>), Cat(<<Str(<<"4", ".">>), In({"0", "1"}), In({"0", "1", "2", "3", "4", "5", "6"})>>)>>)>>)],
   \* jquery_ui_old: jquery-ui(?:-|\.min)?\.js[^/]*?(?:0\.|1\.[0-1][0-1])
   [key |-> <<"j", "q", "u", "e", "r", "y", "_", "u", "i", "_", "o", "l", "d">>,
    pattern |->
      Cat(<<Str(<<"j", "q", "u", "e", "r", "y", "-", "u", "i">>),
            Opt(Alt(<<Str(<<"-">>), Str(<<".", "m", "i", "n">>)>>)),
            Str(<<".", "j", "s">>),
            LazyStar(NotIn({"/"})),
            Alt(<<Str(<<"0", ".">>), Cat(<<Str(<<"1", ".">>), In({"0", "1"}), In({"0", "1"})>>)>>)>>)],
   \* wordpress_old: wp-includes/.*?ver=(?:[0-4]\.|5\.[0-9]\.|6\.[0-1]\.)
   [key |-> <<"w", "o", "r", "d", "p", "r", "e", "s", "s", "_", "o", "l", "d">>,
    pattern |->
      Cat(<<Str(<<"w", "p", "-", "i", "n", "c", "l", "u", "d", "e", "s", "/">>),
            LazyStar(AnyChar),
            Str(<<"v", "e", "r", "=">>),
            Alt(<<Cat(<<In({"0", "1", "2", "3", "4"}), Str(<<".">>)>>), Cat(<<Str(<<"5", ".">>), In(Digits), Str(<<".">>)>>), Cat(<<Str(<<"6", ".">>), In({"0", "1"}), Str(<<".">>)>>)>>)>>)],
   \* drupal_old: drupal\.js.*?v?(?:[0-7]\.)
   [key |-> <<"d", "r", "u", "p", "a", "l", "_", "o", "l", "d">>,
    pattern |->
      Cat(<<Str(<<"d", "r", "u", "p", "a", "l", ".", "j", "s">>),
            LazyStar(AnyChar),
            Opt(Str(<<"v">>)),
            In({"0", "1", "2", "3", "4", "5", "6", "7"}),
            Str(<<".">>)>>)],
   \* joomla_old: joomla.*?v?(?:[0-2]\.|3\.[0-8])
   [key |-> <<"j", "o", "o", "m", "l", "a", "_", "o", "l", "d">>,
    pattern |->
      Cat(<<Str(<<"j", "o", "o", "m", "l", "a">>),
            LazyStar(AnyChar),
            Opt(Str(<<"v">>)),
            Alt(<<Cat(<<In({"0", "1", "2"}), Str(<<".">>)>>), Cat(<<Str(<<"3", ".">>), In({"0", "1", "2", "3", "4", "5", "6", "7", "8"})>>)>>)>>)],
   \* handlebars_old: handlebars(?:-|\.min)?\.js[^/]*?(?:0\.|1\.|2\.|3\.)
   [key |-> <<"h", "a", "n", "d", "l", "e", "b", "a", "r", "s", "_", "o", "l", "d">>,
    pattern |->
      Cat(<<Str(<<"h", "a", "n", "d", "l", "e", "b", "a", "r", "s">>),
            Opt(Alt(<<Str(<<"-">>), Str(<<".", "m", "i", "n">>)>>)),
            Str(<<".", "j", "s">>),
            LazyStar(NotIn({"/"})),
            Alt(<<Str(<<"0", ".">>), Str(<<"1", ".">>), Str(<<"2", ".">>), Str(<<"3", ".">>)>>)>>)],
   \* mustache_old: mustache(?:-|\.min)?\.js[^/]*?(?:0\.|1\.|2\.)
   [key |-> <<"m", "u", "s", "t", "a", "c", "h", "e", "_", "o", "l", "d">>,
    pattern |->
      Cat(<<Str(<<"m", "u", "s", "t", "a", "c", "h", "e">>),
            Opt(Alt(<<Str(<<"-">>), Str(<<".", "m", "i", "n">>)>>)),
            Str(<<".", "j", "s">>),
            LazyStar(NotIn({"/"})),
            Alt(<<Str(<<"0", ".">>), Str(<<"1", ".">>), Str(<<"2", ".">>)>>)>>)],
   \* marionette_old: marionette(?:-|\.min)?\.js[^/]*?(?:0\.|1\.|2\.|3\.)
   [key |-> <<"m", "a", "r", "i", "o", "n", "e", "t", "t", "e", "_", "o", "l", "d">>,
    pattern |->
      Cat(<<Str(<<"m", "a", "r", "i", "o", "n", "e", "t", "t", "e">>),
            Opt(Alt(<<Str(<<"-">>), Str(<<".", "m", "i", "n">>)>>)),
            Str(<<".", "j", "s">>),
            LazyStar(NotIn({"/"})),
            Alt(<<Str(<<"0", ".">>), Str(<<"1", ".">>), Str(<<"2", ".">>), Str(<<"3", ".">>)>>)>>)],
   \* requirejs_old: require(?:-|\.min)?\.js[^/]*?(?:0\.|1\.|2\.[0-2])
   [key |-> <<"r", "e", "q", "u", "i", "r", "e", "j", "s", "_", "o", "l", "d">>,
    pattern |->
      Cat(<<Str(<<"r", "e", "q", "u", "i", "r", "e">>),
            Opt(Alt(<<Str(<<"-">>), Str(<<".", "m", "i", "n">>)>>)),
            Str(<<".", "j", "s">>),
            LazyStar(NotIn({"/"})),
            Alt(<<Str(<<"0", ".">>), Str(<<"1", ".">>), Cat(<<Str(<<"2", ".">>), In({"0", "1", "2"})>>)>>)>>)],
   \* socketio_old: socket\.io(?:-|\.min)?\.js[^/]*?(?:0\.|1\.)
   [key |-> <<"s", "o", "c", "k", "e", "t", "i", "o", "_", "o", "l", "d">>,
    pattern |->
      Cat(<<Str(<<"s", "o", "c", "k", "e", "t", ".", "i", "o">>),
            Opt(Alt(<<Str(<<"-">>), Str(<<".", "m", "i", "n">>)>>)),
            Str(<<".", "j", "s">>),
            LazyStar(NotIn({"/"})),
            Alt(<<Str(<<"0", ".">>), Str(<<"1", ".">>)>>)>>)],
   \* modernizr_old: modernizr(?:-|\.min)?\.js[^/]*?(?:0\.|1\.|2\.)
   [key |-> <<"m", "o", "d", "e", "r", "n", "i", "z", "r", "_", "o", "l", "d">>,
    pattern |->
      Cat(<<Str(<<"m", "o", "d", "e", "r", "n", "i", "z", "r">>),
            Opt(Alt(<<Str(<<"-">>), Str(<<".", "m", "i", "n">>)>>)),
            Str(<<".", "j", "s">>),
            LazyStar(NotIn({"/"})),
            Alt(<<Str(<<"0", ".">>), Str(<<"1", ".">>), Str(<<"2", ".">>)>>)>>)]
  >>

(***************************************************************************)
(* The vulnerability scan of diagnose_site                                 *)
(***************************************************************************)

\* the code points of the characters of the catalog keys, in ascending order
KeyAlphabet ==
  <<"0", "1", "2", "3", "4", "5", "6", "7", "8", "9", "_",
    "a", "b", "c", "d", "e", "f", "g", "h", "i", "j", "k", "l", "m",
    "n", "o", "p", "q", "r", "s", "t", "u", "v", "w", "x", "y", "z">>

CodeRank(c) == CHOOSE i \in 1..Len(KeyAlphabet) : KeyAlphabet[i] = c

RECURSIVE StrLessFrom(_, _, _)
StrLessFrom(a, b, k) ==
  IF k > Len(b) THEN FALSE
  ELSE IF k > Len(a) THEN TRUE
  ELSE IF a[k] = b[k] THEN StrLessFrom(a, b, k + 1)
  ELSE CodeRank(a[k]) < CodeRank(b[k])

\* a < b on str
StrLess(a, b) == StrLessFrom(a, b, 1)

S_old == <<"o", "l", "d">>

S_angularjs == <<"a", "n", "g", "u", "l", "a", "r", "j", "s">>

S_jquery == <<"j", "q", "u", "e", "r", "y">>

S_ui == <<"u", "i">>

S_wordpress == <<"w", "o", "r", "d", "p", "r", "e", "s", "s">>

S_drupal == <<"d", "r", "u", "p", "a", "l">>

S_joomla == <<"j", "o", "o", "m", "l", "a">>

S_unknown == <<"u", "n", "k", "n", "o", "w", "n">>

\* the sort key of pattern_order: ('old' in key, key), False before True
OrderLess(x, y) ==
  LET ox == Contains(S_old, x.key)
      oy == Contains(S_old, y.key)
  IN  IF ox # oy THEN oy ELSE StrLess(x.key, y.key)

RECURSIVE InsertSorted(_, _)
InsertSorted(x, sorted) ==
  IF sorted = <<>> THEN <<x>>
  ELSE IF OrderLess(x, Head(sorted)) THEN <<x>> \o sorted
  ELSE <<Head(sorted)>> \o InsertSorted(x, Tail(sorted))

\* the first k items as they are declared
DeclaredOrder(items, k) == SubSeq(items, 1, k)

RECURSIVE SortedFrom(_, _)
SortedFrom(items, k) ==
  IF k = 0 THEN <<>> ELSE InsertSorted(items[k], SortedFrom(items, k - 1))

\* sorted(VULNERABLE_PATTERNS.items(), key=lambda x: ('old' in x[0], x[0]))
pattern_order == SortedFrom(VULNERABLE_PATTERNS, Len(VULNERABLE_PATTERNS))

\* the characters of context taken on each side of a match
ContextWindow == 50

\* the characters of a match kept as matched_text
MatchedTextLen == 100

\* (\d+\.\d+(?:\.\d+)?)
VersionRe ==
  Cat(<<Plus(In(Digits)), Str(<<".">>), Plus(In(Digits)),
        Opt(Cat(<<Str(<<".">>), Plus(In(Digits))>>))>>)

\* version_match.group(1) if version_match else "unknown"
VersionOf(context, version_match) ==
  IF version_match = NoMatch THEN S_unknown
  ELSE Slice(context, version_match.start, version_match.end)

\* the first version-shaped text of the context, else "unknown"
VersionIn(context) == VersionOf(context, Search(VersionRe, context))

\* the version of the match m: the one found in the context of 50
\* characters on each side of it
ExtractVersion(html_lower, m) ==
  VersionIn(Slice(html_lower, Max(0, m.start - ContextWindow),
                  Min(Len(html_lower), m.end + ContextWindow)))

\* html[match.start():match.end()][:100]
MatchedText(html_text, m) ==
  Slice(Slice(html_text, m.start, m.end), 0, MatchedTextLen)

\* the signature is the jQuery one (and not the jQuery UI one)
IsJqueryTech(tech) == Contains(S_jquery, tech) /\ ~Contains(S_ui, tech)

\* the guard against jQuery plug-in files
IsCoreJqueryText(matched_text) ==
  \/ Contains(<<"j", "q", "u", "e", "r", "y", ".", "j", "s">>, matched_text)
  \/ Contains(<<"j", "q", "u", "e", "r", "y", ".", "m", "i", "n", ".", "j", "s">>, matched_text)
  \/ Contains(<<"j", "q", "u", "e", "r", "y", "/">>, matched_text)
  \/ Contains(<<"/", "j", "q", "u", "e", "r", "y">>, matched_text)

\* a guard that accepts every text that mentions jquery
IsCoreJqueryAnyMention(html_text, m) ==
  Contains(S_jquery, Lower(MatchedText(html_text, m)))

\* the guard, on the lower-cased text of the match
IsCoreJquery(html_text, m) == IsCoreJqueryText(Lower(MatchedText(html_text, m)))

\* vuln_key of a match
VulnKey(tech, version) ==
  IF Contains(S_angularjs, tech) THEN S_angularjs \o <<"_">> \o version
  ELSE IF IsJqueryTech(tech) THEN S_jquery \o <<"_">> \o version
  ELSE IF \/ Contains(S_wordpress, tech)
          \/ Contains(S_drupal, tech)
          \/ Contains(S_joomla, tech) THEN tech
  ELSE IF version # S_unknown THEN tech \o <<"_">> \o version
  ELSE tech

RECURSIVE ScanMatches(_, _, _, _, _, _)
\* a loop body that records the match without looking its key up
ScanMatchUnchecked(tech, html_text, html_lower, matches, k, acc, version) ==
  IF /\ IsJqueryTech(tech)
     /\ ~Contains(S_angularjs, tech)
     /\ ~IsCoreJquery(html_text, matches[k])
    THEN ScanMatches(tech, html_text, html_lower, matches, k + 1, acc)
  ELSE [found_vulns |-> acc.found_vulns \cup {VulnKey(tech, version)},
        findings |-> Append(acc.findings,
                            [type |-> tech,
                             version |-> version,
                             matched_text |-> MatchedText(html_text, matches[k]),
                             at |-> matches[k].start])]

\* a loop body that goes on with the next match after recording one
ScanMatchOn(tech, html_text, html_lower, matches, k, acc, version) ==
  IF /\ IsJqueryTech(tech)
     /\ ~Contains(S_angularjs, tech)
     /\ ~IsCoreJquery(html_text, matches[k])
    THEN ScanMatches(tech, html_text, html_lower, matches, k + 1, acc)
  ELSE IF VulnKey(tech, version) \in acc.found_vulns
    THEN ScanMatches(tech, html_text, html_lower, matches, k + 1, acc)
  ELSE ScanMatches(tech, html_text, html_lower, matches, k + 1,
         [found_vulns |-> acc.found_vulns \cup {VulnKey(tech, version)},
          findings |-> Append(acc.findings,
                              [type |-> tech,
                               version |-> version,
                               matched_text |-> MatchedText(html_text, matches[k]),
                               at |-> matches[k].start])])

\* the body of the loop over the matches, for the k-th match and the
\* version extracted around it: the match is skipped (continue), or it is
\* recorded and the loop left (break)
ScanMatch(tech, html_text, html_lower, matches, k, acc, version) ==
  IF /\ IsJqueryTech(tech)
     /\ ~Contains(S_angularjs, tech)
     /\ ~IsCoreJquery(html_text, matches[k])
    THEN ScanMatches(tech, html_text, html_lower, matches, k + 1, acc)
  ELSE IF VulnKey(tech, version) \in acc.found_vulns
    THEN ScanMatches(tech, html_text, html_lower, matches, k + 1, acc)
  ELSE [found_vulns |-> acc.found_vulns \cup {VulnKey(tech, version)},
        findings |-> Append(acc.findings,
                            [type |-> tech,
                             version |-> version,
                             matched_text |-> MatchedText(html_text, matches[k]),
                             at |-> matches[k].start])]

\* the loop over the matches of one signature, from the k-th match: acc is
\* the scan so far, found_vulns and the findings (with the start of the
\* match each was recorded at)
ScanMatches(tech, html_text, html_lower, matches, k, acc) ==
  IF k > Len(matches) THEN acc
  ELSE ScanMatch(tech, html_text, html_lower, matches, k, acc,
                 ExtractVersion(html_lower, matches[k]))

RECURSIVE ScanPatterns(_, _, _, _, _)
\* the loop over pattern_order, from the j-th signature
ScanPatterns(order, j, html_text, html_lower, acc) ==
  IF j > Len(order) THEN acc
  ELSE ScanPatterns(order, j + 1, html_text, html_lower,
                    ScanMatches(order[j].key, html_text, html_lower,
                                FindIter(order[j].pattern, html_lower), 1, acc))

\* the findings of the scan of html_text, in the order they are appended
ScanVulnerabilities(html_text) ==
  ScanPatterns(pattern_order, 1, html_text,
               IF html_text # <<>> THEN Lower(html_text) ELSE <<>>,
               [found_vulns |-> {}, findings |-> <<>>]).findings

\* the scan, for a catalog whose signatures are declared in the order of
\* catalog (a dict iterates in the order its keys were inserted)
ScanIn(catalog, html_text) ==
  ScanPatterns(SortedFrom(catalog, Len(catalog)), 1, html_text,
               IF html_text # <<>> THEN Lower(html_text) ELSE <<>>,
               [found_vulns |-> {}, findings |-> <<>>]).findings

(***************************************************************************)
(* The technology-identification catalog and the static matcher            *)
(***************************************************************************)

TECH_DETECTION_PATTERNS ==
  <<
   \* angularjs: angular(?:js|\.js|\.min\.js)
   [key |-> <<"a", "n", "g", "u", "l", "a", "r", "j", "s">>,
    pattern |->
      Cat(<<Str(<<"a", "n", "g", "u", "l", "a", "r">>),
            Alt(<<Str(<<"j", "s">>), Str(<<".", "j", "s">>), Str(<<".", "m", "i", "n", ".", "j", "s">>)>>)>>)],
   \* angular: @angular/|angular\.js|angularjs
   [key |-> <<"a", "n", "g", "u", "l", "a", "r">>,
    pattern |->
      Alt(<<Str(<<"@", "a", "n", "g", "u", "l", "a", "r", "/">>), Str(<<"a", "n", "g", "u", "l", "a", "r", ".", "j", "s">>), Str(<<"a", "n", "g", "u", "l", "a", "r", "j", "s">>)>>)],
   \* react: react(?:\.js|\.min\.js|/)|react-dom
   [key |-> <<"r", "e", "a", "c", "t">>,
    pattern |->
      Cat(<<Str(<<"r", "e", "a", "c", "t">>),
            Alt(<<Alt(<<Str(<<".", "j", "s">>), Str(<<".", "m", "i", "n", ".", "j", "s">>), Str(<<"/">>)>>), Str(<<"-", "d", "o", "m">>)>>)>>)],
   \* vue: vue(?:\.js|\.min\.js|\.runtime)
   [key |-> <<"v", "u", "e">>,
    pattern |->
      Cat(<<Str(<<"v", "u", "e", ".">>),
            Alt(<<Str(<<"j", "s">>), Str(<<"m", "i", "n", ".", "j", "s">>), Str(<<"r", "u", "n", "t", "i", "m", "e">>)>>)>>)],
   \* nextjs: _next/|next\.js|__next
   [key |-> <<"n", "e", "x", "t", "j", "s">>,
    pattern |->
      Alt(<<Str(<<"_", "n", "e", "x", "t", "/">>), Str(<<"n", "e", "x", "t", ".", "j", "s">>), Str(<<"_", "_", "n", "e", "x", "t">>)>>)],
   \* nuxt: _nuxt/|nuxt\.js
   [key |-> <<"n", "u", "x", "t">>,
    pattern |->
      Alt(<<Str(<<"_", "n", "u", "x", "t", "/">>), Str(<<"n", "u", "x", "t", ".", "j", "s">>)>>)],
   \* svelte: svelte|svelte\.js
   [key |-> <<"s", "v", "e", "l", "t", "e">>,
    pattern |->
      Cat(<<Str(<<"s", "v", "e", "l", "t", "e">>),
            Alt(<<Cat(<<>>), Str(<<".", "j", "s">>)>>)>>)],
   \* jquery: jquery(?:\.min)?\.js
   [key |-> <<"j", "q", "u", "e", "r", "y">>,
    pattern |->
      Cat(<<Str(<<"j", "q", "u", "e", "r", "y">>),
            Opt(Str(<<".", "m", "i", "n">>)),
            Str(<<".", "j", "s">>)>>)],
   \* backbone: backbone(?:\.min)?\.js
   [key |-> <<"b", "a", "c", "k", "b", "o", "n", "e">>,
    pattern |->
      Cat(<<Str(<<"b", "a", "c", "k", "b", "o", "n", "e">>),
            Opt(Str(<<".", "m", "i", "n">>)),
            Str(<<".", "j", "s">>)>>)],
   \* ember: ember(?:\.js|\.min\.js)
   [key |-> <<"e", "m", "b", "e", "r">>,
    pattern |->
      Cat(<<Str(<<"e", "m", "b", "e", "r", ".">>),
            Alt(<<Str(<<"j", "s">>), Str(<<"m", "i", "n", ".", "j", "s">>)>>)>>)],
   \* knockout: knockout(?:\.min)?\.js
   [key |-> <<"k", "n", "o", "c", "k", "o", "u", "t">>,
    pattern |->
      Cat(<<Str(<<"k", "n", "o", "c", "k", "o", "u", "t">>),
            Opt(Str(<<".", "m", "i", "n">>)),
            Str(<<".", "j", "s">>)>>)],
   \* dojo: dojo(?:\.js|\.min\.js)
   [key |-> <<"d", "o", "j", "o">>,
    pattern |->
      Cat(<<Str(<<"d", "o", "j", "o", ".">>),
            Alt(<<Str(<<"j", "s">>), Str(<<"m", "i", "n", ".", "j", "s">>)>>)>>)],
   \* prototype: prototype(?:\.js|\.min\.js)
   [key |-> <<"p", "r", "o", "t", "o", "t", "y", "p", "e">>,
    pattern |->
      Cat(<<Str(<<"p", "r", "o", "t", "o", "t", "y", "p", "e", ".">>),
            Alt(<<Str(<<"j", "s">>), Str(<<"m", "i", "n", ".", "j", "s">>)>>)>>)],
   \* mootools: mootools(?:\.js|\.min\.js)
   [key |-> <<"m", "o", "o", "t", "o", "o", "l", "s">>,
    pattern |->
      Cat(<<Str(<<"m", "o", "o", "t", "o", "o", "l", "s", ".">>),
            Alt(<<Str(<<"j", "s">>), Str(<<"m", "i", "n", ".", "j", "s">>)>>)>>)],
   \* yui: yui(?:\.js|\.min\.js)
   [key |-> <<"y", "u", "i">>,
    pattern |->
      Cat(<<Str(<<"y", "u", "i", ".">>),
            Alt(<<Str(<<"j", "s">>), Str(<<"m", "i", "n", ".", "j", "s">>)>>)>>)],
   \* extjs: ext(?:\.js|\.min\.js)
   [key |-> <<"e", "x", "t", "j", "s">>,
    pattern |->
      Cat(<<Str(<<"e", "x", "t", ".">>),
            Alt(<<Str(<<"j", "s">>), Str(<<"m", "i", "n", ".", "j", "s">>)>>)>>)],
   \* underscore: underscore(?:\.min)?\.js
   [key |-> <<"u", "n", "d", "e", "r", "s", "c", "o", "r", "e">>,
    pattern |->
      Cat(<<Str(<<"u", "n", "d", "e", "r", "s", "c", "o", "r", "e">>),
            Opt(Str(<<".", "m", "i", "n">>)),
            Str(<<".", "j", "s">>)>>)],
   \* lodash: lodash(?:\.min)?\.js
   [key |-> <<"l", "o", "d", "a", "s", "h">>,
    pattern |->
      Cat(<<Str(<<"l", "o", "d", "a", "s", "h">>),
            Opt(Str(<<".", "m", "i", "n">>)),
            Str(<<".", "j", "s">>)>>)],
   \* moment: moment(?:\.min)?\.js
   [key |-> <<"m", "o", "m", "e", "n", "t">>,
    pattern |->
      Cat(<<Str(<<"m", "o", "m", "e", "n", "t">>),
            Opt(Str(<<".", "m", "i", "n">>)),
            Str(<<".", "j", "s">>)>>)],
   \* jquery_ui: jquery-ui|jqueryui
   [key |-> <<"j", "q", "u", "e", "r", "y", "_", "u", "i">>,
    pattern |->
      Cat(<<Str(<<"j", "q", "u", "e", "r", "y">>),
            Alt(<<Str(<<"-", "u", "i">>), Str(<<"u", "i">>)>>)>>)],
   \* bootstrap: bootstrap(?:\.min)?\.(?:js|css)
   [key |-> <<"b", "o", "o", "t", "s", "t", "r", "a", "p">>,
    pattern |->
      Cat(<<Str(<<"b", "o", "o", "t", "s", "t", "r", "a", "p">>),
            Opt(Str(<<".", "m", "i", "n">>)),
            Str(<<".">>),
            Alt(<<Str(<<"j", "s">>), Str(<<"c", "s", "s">>)>>)>>)],
   \* wordpress: wp-content|wp-includes|wp-admin|wordpress
   [key |-> <<"w", "o", "r", "d", "p", "r", "e", "s", "s">>,
    pattern |->
      Cat(<<Str(<<"w">>),
            Alt(<<Str(<<"p", "-", "c", "o", "n", "t", "e", "n", "t">>), Str(<<"p", "-", "i", "n", "c", "l", "u", "d", "e", "s">>), Str(<<"p", "-", "a", "d", "m", "i", "n">>), Str(<<"o", "r", "d", "p", "r", "e", "s", "s">>)>>)>>)],
   \* drupal: drupal\.js|sites/default
   [key |-> <<"d", "r", "u", "p", "a", "l">>,
    pattern |->
      Alt(<<Str(<<"d", "r", "u", "p", "a", "l", ".", "j", "s">>), Str(<<"s", "i", "t", "e", "s", "/", "d", "e", "f", "a", "u", "l", "t">>)>>)],
   \* joomla: joomla|components/com_
   [key |-> <<"j", "o", "o", "m", "l", "a">>,
    pattern |->
      Alt(<<Str(<<"j", "o", "o", "m", "l", "a">>), Str(<<"c", "o", "m", "p", "o", "n", "e", "n", "t", "s", "/", "c", "o", "m", "_">>)>>)],
   \* magento: magento|skin/frontend
   [key |-> <<"m", "a", "g", "e", "n", "t", "o">>,
    pattern |->
      Alt(<<Str(<<"m", "a", "g", "e", "n", "t", "o">>), Str(<<"s", "k", "i", "n", "/", "f", "r", "o", "n", "t", "e", "n", "d">>)>>)],
   \* shopify: cdn\.shopify|shopify
   [key |-> <<"s", "h", "o", "p", "i", "f", "y">>,
    pattern |->
      Alt(<<Str(<<"c", "d", "n", ".", "s", "h", "o", "p", "i", "f", "y">>), Str(<<"s", "h", "o", "p", "i", "f", "y">>)>>)],
   \* woocommerce: woocommerce
   [key |-> <<"w", "o", "o", "c", "o", "m", "m", "e", "r", "c", "e">>,
    pattern |->
      Str(<<"w", "o", "o", "c", "o", "m", "m", "e", "r", "c", "e">>)],
   \* aspnet: asp\.net|aspx|viewstate|__doPostBack
   [key |-> <<"a", "s", "p", "n", "e", "t">>,
    pattern |->
      Alt(<<Str(<<"a", "s", "p", ".", "n", "e", "t">>), Str(<<"a", "s", "p", "x">>), Str(<<"v", "i", "e", "w", "s", "t", "a", "t", "e">>), Str(<<"_", "_", "d", "o", "P", "o", "s", "t", "B", "a", "c", "k">>)>>)],
   \* php: \.php\?|x-powered-by.*php
   [key |-> <<"p", "h", "p">>,
    pattern |->
      Alt(<<Str(<<".", "p", "h", "p", "?">>), Cat(<<Str(<<"x", "-", "p", "o", "w", "e", "r", "e", "d", "-", "b", "y">>), Star(AnyChar), Str(<<"p", "h", "p">>)>>)>>)],
   \* rails: ruby.*on.*rails
   [key |-> <<"r", "a", "i", "l", "s">>,
    pattern |->
      Cat(<<Str(<<"r", "u", "b", "y">>),
            Star(AnyChar),
            Str(<<"o", "n">>),
            Star(AnyChar),
            Str(<<"r", "a", "i", "l", "s">>)>>)],
   \* django: csrfmiddlewaretoken
   [key |-> <<"d", "j", "a", "n", "g", "o">>,
    pattern |->
      Str(<<"c", "s", "r", "f", "m", "i", "d", "d", "l", "e", "w", "a", "r", "e", "t", "o", "k", "e", "n">>)],
   \* laravel: laravel|_token
   [key |-> <<"l", "a", "r", "a", "v", "e", "l">>,
    pattern |->
      Alt(<<Str(<<"l", "a", "r", "a", "v", "e", "l">>), Str(<<"_", "t", "o", "k", "e", "n">>)>>)],
   \* express: express\.js
   [key |-> <<"e", "x", "p", "r", "e", "s", "s">>,
    pattern |->
      Str(<<"e", "x", "p", "r", "e", "s", "s", ".", "j", "s">>)],
   \* socketio: socket\.io
   [key |-> <<"s", "o", "c", "k", "e", "t", "i", "o">>,
    pattern |->
      Str(<<"s", "o", "c", "k", "e", "t", ".", "i", "o">>)],
   \* handlebars: handlebars(?:\.min)?\.js
   [key |-> <<"h", "a", "n", "d", "l", "e", "b", "a", "r", "s">>,
    pattern |->
      Cat(<<Str(<<"h", "a", "n", "d", "l", "e", "b", "a", "r", "s">>),
            Opt(Str(<<".", "m", "i", "n">>)),
            Str(<<".", "j", "s">>)>>)],
   \* mustache: mustache(?:\.min)?\.js
   [key |-> <<"m", "u", "s", "t", "a", "c", "h", "e">>,
    pattern |->
      Cat(<<Str(<<"m", "u", "s", "t", "a", "c", "h", "e">>),
            Opt(Str(<<".", "m", "i", "n">>)),
            Str(<<".", "j", "s">>)>>)],
   \* marionette: marionette(?:\.min)?\.js
   [key |-> <<"m", "a", "r", "i", "o", "n", "e", "t", "t", "e">>,
    pattern |->
      Cat(<<Str(<<"m", "a", "r", "i", "o", "n", "e", "t", "t", "e">>),
            Opt(Str(<<".", "m", "i", "n">>)),
            Str(<<".", "j", "s">>)>>)],
   \* requirejs: require(?:\.min)?\.js
   [key |-> <<"r", "e", "q", "u", "i", "r", "e", "j", "s">>,
    pattern |->
      Cat(<<Str(<<"r", "e", "q", "u", "i", "r", "e">>),
            Opt(Str(<<".", "m", "i", "n">>)),
            Str(<<".", "j", "s">>)>>)],
   \* fontawesome: font-awesome|fontawesome
   [key |-> <<"f", "o", "n", "t", "a", "w", "e", "s", "o", "m", "e">>,
    pattern |->
      Cat(<<Str(<<"f", "o", "n", "t">>),
            Alt(<<Str(<<"-", "a", "w", "e", "s", "o", "m", "e">>), Str(<<"a", "w", "e", "s", "o", "m", "e">>)>>)>>)],
   \* modernizr: modernizr(?:\.min)?\.js
   [key |-> <<"m", "o", "d", "e", "r", "n", "i", "z", "r">>,
    pattern |->
      Cat(<<Str(<<"m", "o", "d", "e", "r", "n", "i", "z", "r">>),
            Opt(Str(<<".", "m", "i", "n">>)),
            Str(<<".", "j", "s">>)>>)]
  >>

\* the characters after a match searched for a version
VersionLookahead == 30

\* [v\s\/-](\d+\.\d+(?:\.\d+)?)
StaticVersionRe ==
  Cat(<<In({"v"} \cup Spaces \cup {"/"} \cup {"-"}), VersionRe>>)

\* an absent value (None, or null of the page's scripts)
None == <<>>

\* the text of group 1 of the version match, None without a match
StaticVersionOf(context, version_match) ==
  IF version_match = NoMatch THEN None
  ELSE Slice(context, version_match.start + 1, version_match.end)

StaticVersionIn(context) ==
  StaticVersionOf(context, Search(StaticVersionRe, context))

\* the version looked for from the start of the match m to 30 characters
\* after its end
StaticVersion(html_lower, m) ==
  StaticVersionIn(Slice(html_lower, m.start,
                        Min(Len(html_lower), m.end + VersionLookahead)))

RECURSIVE StaticMatches(_, _, _, _)
\* a loop body that goes on after a versioned match
StaticMatchAll(tech_name, html_lower, matches, k, version) ==
  <<[name |-> tech_name, version |-> version, confidence |-> "low"]>>
  \o StaticMatches(tech_name, html_lower, matches, k + 1)

\* the body of the loop over the matches: the finding of the k-th match,
\* the last one of its pattern if it has a version (break)
StaticMatch(tech_name, html_lower, matches, k, version) ==
  IF version # None
    THEN <<[name |-> tech_name, version |-> version, confidence |-> "low"]>>
  ELSE <<[name |-> tech_name, version |-> version, confidence |-> "low"]>>
       \o StaticMatches(tech_name, html_lower, matches, k + 1)

\* the loop over the matches of one catalog pattern, from the k-th match:
\* one finding per match, up to and including the first versioned one
StaticMatches(tech_name, html_lower, matches, k) ==
  IF k > Len(matches) THEN <<>>
  ELSE StaticMatch(tech_name, html_lower, matches, k,
                   StaticVersion(html_lower, matches[k]))

RECURSIVE StaticPatterns(_, _, _)
StaticPatterns(catalog, j, html_lower) ==
  IF j > Len(catalog) THEN <<>>
  ELSE StaticMatches(catalog[j].key, html_lower,
                     FindIter(catalog[j].pattern, html_lower), 1)
       \o StaticPatterns(catalog, j + 1, html_lower)

detect_technologies_static(html_content) ==
  StaticPatterns(TECH_DETECTION_PATTERNS, 1, Lower(html_content))

(***************************************************************************)
(* Fusion of the live and the static findings                              *)
(***************************************************************************)

\* the position of name among the entries of merged, 0 if it has none
IndexOfName(merged, name) ==
  IF \E i \in 1..Len(merged) : merged[i].name = name
  THEN CHOOSE i \in 1..Len(merged) : merged[i].name = name
  ELSE 0

\* a step that keeps the version stored first
MergeOneFirstWins(merged, tech) ==
  IF IndexOfName(merged, tech.name) = 0
  THEN Append(merged, [name |-> tech.name, version |-> tech.version])
  ELSE merged

\* a step that stores every version it meets
MergeOneLastWins(merged, tech) ==
  IF IndexOfName(merged, tech.name) = 0
  THEN Append(merged, [name |-> tech.name, version |-> tech.version])
  ELSE IF tech.version # None
    THEN [merged EXCEPT ![IndexOfName(merged, tech.name)].version = tech.version]
  ELSE merged

\* one step of either loop of merge_detected_techs; merged is the dict, as
\* the sequence of its entries in insertion order
MergeOne(merged, tech) ==
  LET i == IndexOfName(merged, tech.name)
  IN  IF i = 0 THEN Append(merged, [name |-> tech.name, version |-> tech.version])
      ELSE IF tech.version # None /\ merged[i].version = None
        THEN [merged EXCEPT ![i].version = tech.version]
      ELSE merged

RECURSIVE MergeAll(_, _, _)
MergeAll(merged, techs, k) ==
  IF k > Len(techs) THEN merged
  ELSE MergeAll(MergeOne(merged, techs[k]), techs, k + 1)

merge_detected_techs(browser_techs_, static_techs) ==
  MergeAll(MergeAll(<<>>, browser_techs_, 1), static_techs, 1)

(***************************************************************************)
(* format_load_time: the FCP as seconds with one decimal.  The division is *)
(* the float division of Python and the formatting rounds the float it     *)
(* yields, so a decimal tie goes the way the float lies from it.           *)
(***************************************************************************)

DigitChars == <<"0", "1", "2", "3", "4", "5", "6", "7", "8", "9">>

RECURSIVE DecimalString(_)
\* str(n) for n >= 0
DecimalString(n) ==
  IF n < 10 THEN <<DigitChars[n + 1]>>
  ELSE DecimalString(n \div 10) \o <<DigitChars[(n % 10) + 1]>>

RECURSIVE Pow2(_)
Pow2(k) == IF k = 0 THEN 1 ELSE 2 * Pow2(k - 1)

RECURSIVE Pow2Mod(_, _)
\* 2^k modulo m
Pow2Mod(k, m) == IF k = 0 THEN 1 % m ELSE (2 * Pow2Mod(k - 1, m)) % m

\* the bits of the significand of a float
SignificandBits == 53

\* the binary exponent of n / 1000 for 0 < n: 2^e <= n / 1000 < 2^(e + 1)
BinaryExponent(n) ==
  IF n >= 1000
  THEN CHOOSE e \in 0..20 : 1000 * Pow2(e) <= n /\ n < 2000 * Pow2(e)
  ELSE 0 - (CHOOSE j \in 1..10 : n * Pow2(j) >= 1000 /\ n * Pow2(j) < 2000)

\* what the float division n / 1000.0 drops of the exact quotient, in
\* thousandths of the last bit of the significand: 0 when the quotient is
\* a float, below 500 when the float is below it, above 500 when above
DivisionRemainder(n) ==
  ((n % 1000) * Pow2Mod(SignificandBits - 1 - BinaryExponent(n), 1000)) % 1000

\* round-half-even
HalfEven(w) == IF w % 2 = 0 THEN w ELSE w + 1

\* n / 1000.0 rounded to tenths, as the format specification .1f rounds it
Tenths(n) ==
  IF n % 100 < 50 THEN n \div 100
  ELSE IF n % 100 > 50 THEN (n \div 100) + 1
  ELSE IF DivisionRemainder(n) = 0 THEN HalfEven(n \div 100)
  ELSE IF DivisionRemainder(n) > 500 THEN (n \div 100) + 1
  ELSE n \div 100

S_NA == <<"N", "/", "A">>

\* f"{seconds:.1f}s"
SecondsText(tenths) ==
  DecimalString(tenths \div 10) \o <<".", DigitChars[(tenths % 10) + 1], "s">>

\* a format that takes an FCP of 0 for a missing one
format_load_time_falsy(fcp_ms) ==
  IF fcp_ms = None \/ fcp_ms = <<0>> THEN S_NA
  ELSE SecondsText(Tenths(fcp_ms[1]))

format_load_time(fcp_ms) ==
  IF fcp_ms = None THEN S_NA ELSE SecondsText(Tenths(fcp_ms[1]))

(***************************************************************************)
(* format_tech_name: the tech label of a result                            *)
(***************************************************************************)

\* tech_map, in the order the dict is written: <<key, readable name>>
tech_map ==
  <<<<<<"a", "n", "g", "u", "l", "a", "r", "j", "s">>,
      <<"A", "n", "g", "u", "l", "a", "r", "J", "S">>>>,
    <<<<"a", "n", "g", "u", "l", "a", "r">>,
      <<"A", "n", "g", "u", "l", "a", "r">>>>,
    <<<<"j", "q", "u", "e", "r", "y">>,
      <<"j", "Q", "u", "e", "r", "y">>>>,
    <<<<"b", "o", "o", "t", "s", "t", "r", "a", "p">>,
      <<"B", "o", "o", "t", "s", "t", "r", "a", "p">>>>,
    <<<<"r", "e", "a", "c", "t">>,
      <<"R", "e", "a", "c", "t">>>>,
    <<<<"v", "u", "e">>,
      <<"V", "u", "e", ".", "j", "s">>>>,
    <<<<"n", "e", "x", "t", "j", "s">>,
      <<"N", "e", "x", "t", ".", "j", "s">>>>,
    <<<<"n", "u", "x", "t">>,
      <<"N", "u", "x", "t", ".", "j", "s">>>>,
    <<<<"s", "v", "e", "l", "t", "e">>,
      <<"S", "v", "e", "l", "t", "e">>>>,
    <<<<"b", "a", "c", "k", "b", "o", "n", "e">>,
      <<"B", "a", "c", "k", "b", "o", "n", "e", ".", "j", "s">>>>,
    <<<<"e", "m", "b", "e", "r">>,
      <<"E", "m", "b", "e", "r", ".", "j", "s">>>>,
    <<<<"k", "n", "o", "c", "k", "o", "u", "t">>,
      <<"K", "n", "o", "c", "k", "o", "u", "t", ".", "j", "s">>>>,
    <<<<"d", "o", "j", "o">>,
      <<"D", "o", "j", "o", " ", "T", "o", "o", "l", "k", "i", "t">>>>,
    <<<<"p", "r", "o", "t", "o", "t", "y", "p", "e">>,
      <<"P", "r", "o", "t", "o", "t", "y", "p", "e", ".", "j", "s">>>>,
    <<<<"m", "o", "o", "t", "o", "o", "l", "s">>,
      <<"M", "o", "o", "T", "o", "o", "l", "s">>>>,
    <<<<"y", "u", "i">>,
      <<"Y", "U", "I">>>>,
    <<<<"e", "x", "t", "j", "s">>,
      <<"E", "x", "t", "J", "S">>>>,
    <<<<"u", "n", "d", "e", "r", "s", "c", "o", "r", "e">>,
      <<"U", "n", "d", "e", "r", "s", "c", "o", "r", "e", ".", "j", "s">>>>,
    <<<<"l", "o", "d", "a", "s", "h">>,
      <<"L", "o", "d", "a", "s", "h">>>>,
    <<<<"m", "o", "m", "e", "n", "t">>,
      <<"M", "o", "m", "e", "n", "t", ".", "j", "s">>>>,
    <<<<"j", "q", "u", "e", "r", "y", "_", "u", "i">>,
      <<"j", "Q", "u", "e", "r", "y", " ", "U", "I">>>>,
    <<<<"w", "o", "r", "d", "p", "r", "e", "s", "s">>,
      <<"W", "o", "r", "d", "P", "r", "e", "s", "s">>>>,
    <<<<"d", "r", "u", "p", "a", "l">>,
      <<"D", "r", "u", "p", "a", "l">>>>,
    <<<<"j", "o", "o", "m", "l", "a">>,
      <<"J", "o", "o", "m", "l", "a">>>>,
    <<<<"m", "a", "g", "e", "n", "t", "o">>,
      <<"M", "a", "g", "e", "n", "t", "o">>>>,
    <<<<"s", "h", "o", "p", "i", "f", "y">>,
      <<"S", "h", "o", "p", "i", "f", "y">>>>,
    <<<<"w", "o", "o", "c", "o", "m", "m", "e", "r", "c", "e">>,
      <<"W", "o", "o", "C", "o", "m", "m", "e", "r", "c", "e">>>>,
    <<<<"a", "s", "p", "n", "e", "t">>,
      <<"A", "S", "P", ".", "N", "E", "T">>>>,
    <<<<"p", "h", "p">>,
      <<"P", "H", "P">>>>,
    <<<<"r", "a", "i", "l", "s">>,
      <<"R", "u", "b", "y", " ", "o", "n", " ", "R", "a", "i", "l", "s">>>>,
    <<<<"d", "j", "a", "n", "g", "o">>,
      <<"D", "j", "a", "n", "g", "o">>>>,
    <<<<"l", "a", "r", "a", "v", "e", "l">>,
      <<"L", "a", "r", "a", "v", "e", "l">>>>,
    <<<<"h", "a", "n", "d", "l", "e", "b", "a", "r", "s">>,
      <<"H", "a", "n", "d", "l", "e", "b", "a", "r", "s">>>>,
    <<<<"m", "u", "s", "t", "a", "c", "h", "e">>,
      <<"M", "u", "s", "t", "a", "c", "h", "e", ".", "j", "s">>>>,
    <<<<"m", "a", "r", "i", "o", "n", "e", "t", "t", "e">>,
      <<"M", "a", "r", "i", "o", "n", "e", "t", "t", "e", ".", "j", "s">>>>,
    <<<<"r", "e", "q", "u", "i", "r", "e", "j", "s">>,
      <<"R", "e", "q", "u", "i", "r", "e", "J", "S">>>>,
    <<<<"s", "o", "c", "k", "e", "t", "i", "o">>,
      <<"S", "o", "c", "k", "e", "t", ".", "i", "o">>>>,
    <<<<"e", "x", "p", "r", "e", "s", "s">>,
      <<"E", "x", "p", "r", "e", "s", "s", ".", "j", "s">>>>,
    <<<<"f", "o", "n", "t", "a", "w", "e", "s", "o", "m", "e">>,
      <<"F", "o", "n", "t", " ", "A", "w", "e", "s", "o", "m", "e">>>>,
    <<<<"m", "o", "d", "e", "r", "n", "i", "z", "r">>,
      <<"M", "o", "d", "e", "r", "n", "i", "z", "r">>>>>>

priority_order ==
  <<<<"n", "e", "x", "t", "j", "s">>,
    <<"n", "u", "x", "t">>,
    <<"r", "e", "a", "c", "t">>,
    <<"v", "u", "e">>,
    <<"a", "n", "g", "u", "l", "a", "r">>,
    <<"a", "n", "g", "u", "l", "a", "r", "j", "s">>,
    <<"s", "v", "e", "l", "t", "e">>,
    <<"w", "o", "r", "d", "p", "r", "e", "s", "s">>,
    <<"d", "r", "u", "p", "a", "l">>,
    <<"j", "o", "o", "m", "l", "a">>,
    <<"m", "a", "g", "e", "n", "t", "o">>,
    <<"s", "h", "o", "p", "i", "f", "y">>,
    <<"r", "a", "i", "l", "s">>,
    <<"d", "j", "a", "n", "g", "o">>,
    <<"l", "a", "r", "a", "v", "e", "l">>,
    <<"a", "s", "p", "n", "e", "t">>,
    <<"p", "h", "p">>,
    <<"e", "x", "p", "r", "e", "s", "s">>,
    <<"e", "m", "b", "e", "r">>,
    <<"b", "a", "c", "k", "b", "o", "n", "e">>,
    <<"b", "o", "o", "t", "s", "t", "r", "a", "p">>,
    <<"j", "q", "u", "e", "r", "y">>>>

S_Unknown == <<"U", "n", "k", "n", "o", "w", "n">>

\* str.upper() on one character
UpperChar(c) ==
  IF \E u \in DOMAIN UpperToLower : UpperToLower[u] = c
  THEN CHOOSE u \in DOMAIN UpperToLower : UpperToLower[u] = c
  ELSE c

\* str.title(): a letter that follows a letter is lowered, any other letter
\* is raised
Title(s) ==
  [i \in 1..Len(s) |->
     IF i > 1 /\ LowerChar(s[i - 1]) \in LowerLetters
     THEN LowerChar(s[i])
     ELSE UpperChar(s[i])]

\* the positions of tech_map whose key is the name
TechMapKeys(name) == {k \in 1..Len(tech_map) : tech_map[k][1] = name}

\* tech_map.get(tech["name"], tech["name"].title())
ReadableName(name) ==
  IF TechMapKeys(name) # {}
  THEN tech_map[Least(TechMapKeys(name))][2]
  ELSE Title(name)

\* t.get('confidence'): None when the dict has no such key
ConfidenceOf(t) ==
  IF "confidence" \in DOMAIN t THEN t.confidence ELSE "None"

conf_score(t) ==
  IF ConfidenceOf(t) = "high" THEN 3
  ELSE IF ConfidenceOf(t) = "medium" THEN 2
  ELSE 1

PriorityIndex(name) ==
  {k \in 1..Len(priority_order) : priority_order[k] = name}

\* len(priority_order) - priority_order.index(t['name']), 0 out of the list
priority_score(t) ==
  IF PriorityIndex(t.name) # {}
  THEN Len(priority_order) - (Least(PriorityIndex(t.name)) - 1)
  ELSE 0

\* get_sort_key(a) > get_sort_key(b), as tuples
KeyGreater(a, b) ==
  \/ conf_score(a) > conf_score(b)
  \/ conf_score(a) = conf_score(b) /\ priority_score(a) > priority_score(b)

\* the place of t in a list sorted with reverse=True: before the first
\* entry of a smaller key, so after the entries of an equal key (the sort
\* is stable)
RECURSIVE InsertByKey(_, _, _)
InsertByKey(sorted_techs, t, k) ==
  IF k > Len(sorted_techs) THEN Append(sorted_techs, t)
  ELSE IF KeyGreater(t, sorted_techs[k])
       THEN SubSeq(sorted_techs, 1, k - 1) \o <<t>>
            \o SubSeq(sorted_techs, k, Len(sorted_techs))
       ELSE InsertByKey(sorted_techs, t, k + 1)

\* sorted(detected_techs, key=get_sort_key, reverse=True), of the first n
RECURSIVE SortedTechs(_, _)
SortedTechs(techs, n) ==
  IF n = 0 THEN <<>>
  ELSE InsertByKey(SortedTechs(techs, n - 1), techs[n], 1)

\* the first position from k on where s has (or has no) white space
RECURSIVE SkipSpaces(_, _)
SkipSpaces(s, k) ==
  IF k <= Len(s) /\ s[k] \in Spaces THEN SkipSpaces(s, k + 1) ELSE k

RECURSIVE SkipWord(_, _)
SkipWord(s, k) ==
  IF k <= Len(s) /\ s[k] \notin Spaces THEN SkipWord(s, k + 1) ELSE k

\* name.split()[0]
FirstWord(s) ==
  SubSeq(s, SkipSpaces(s, 1), SkipWord(s, SkipSpaces(s, 1)) - 1)

\* the readable name, with the version when there is one
FormattedName(t) ==
  IF t.version # None
  THEN ReadableName(t.name) \o <<" ">> \o t.version
  ELSE ReadableName(t.name)

\* a name is appended unless its first word occurs in a name of the list
AppendUnlessListed(formatted_names, name) ==
  IF \E i \in 1..Len(formatted_names) :
       Contains(FirstWord(name), formatted_names[i])
  THEN formatted_names
  ELSE Append(formatted_names, name)

\* the loop over sorted_techs, from the k-th: it stops at three names
RECURSIVE FormattedNames(_, _, _)
FormattedNames(sorted_techs, k, formatted_names) ==
  IF k > Len(sorted_techs) \/ Len(formatted_names) >= 3
  THEN formatted_names
  ELSE FormattedNames(sorted_techs, k + 1,
         AppendUnlessListed(formatted_names, FormattedName(sorted_techs[k])))

\* ", ".join(names), from the k-th name
RECURSIVE Join(_, _)
Join(names, k) ==
  IF k > Len(names) THEN <<>>
  ELSE IF k = Len(names) THEN names[k]
  ELSE names[k] \o <<",", " ">> \o Join(names, k + 1)

\* the positions of tech_map whose key occurs in the type of the finding
KeysIn(tech_type) ==
  {k \in 1..Len(tech_map) : Contains(tech_map[k][1], Lower(tech_type))}

\* the label made of the first finding
LabelOfVulnerability(first_vuln) ==
  (IF KeysIn(first_vuln.type) # {}
   THEN tech_map[Least(KeysIn(first_vuln.type))][2]
   ELSE S_Unknown)
  \o (IF first_vuln.version # S_unknown
      THEN <<" ">> \o first_vuln.version
      ELSE <<>>)

LabelOfTechs(techs) ==
  Join(FormattedNames(SortedTechs(techs, Len(techs)), 1, <<>>), 1)

format_tech_name(vulnerabilities, techs) ==
  IF techs # <<>> /\ LabelOfTechs(techs) # <<>> THEN LabelOfTechs(techs)
  ELSE IF vulnerabilities # <<>>
       THEN LabelOfVulnerability(vulnerabilities[1])
       ELSE S_Unknown

(***************************************************************************)
(* extract_domain, and get_safe_filename of src/app.py, on URLs written    *)
(* as scheme://host/path or as host/path                                   *)
(***************************************************************************)

SchemeMark == <<":", "/", "/">>

\* where "://" starts in the URL, 0 when the URL has none
SchemeAt(url) ==
  IF Contains(SchemeMark, url)
  THEN Least({i \in 1..Len(url) : OccursAt(SchemeMark, url, i)})
  ELSE 0

\* the first position from k on where s has a character of the set
RECURSIVE SkipTo(_, _, _)
SkipTo(s, stops, k) ==
  IF k <= Len(s) /\ s[k] \notin stops THEN SkipTo(s, stops, k + 1) ELSE k

\* urlparse(url).netloc: what follows "//", up to the path, the query or
\* the fragment
Netloc(url) ==
  IF SchemeAt(url) = 0 THEN <<>>
  ELSE SubSeq(url, SchemeAt(url) + 3,
              SkipTo(url, {"/", "?", "#"}, SchemeAt(url) + 3) - 1)

\* urlparse(url).path
Path(url) ==
  IF SchemeAt(url) = 0
  THEN SubSeq(url, 1, SkipTo(url, {"?", "#"}, 1) - 1)
  ELSE SubSeq(url, SkipTo(url, {"/", "?", "#"}, SchemeAt(url) + 3),
              SkipTo(url, {"?", "#"}, SchemeAt(url) + 3) - 1)

\* parsed.netloc or parsed.path.split('/')[0]
NetlocOrPath(url) ==
  IF Netloc(url) # <<>> THEN Netloc(url)
  ELSE SubSeq(Path(url), 1, SkipTo(Path(url), {"/"}, 1) - 1)

S_www == <<"w", "w", "w", ".">>

extract_domain(url) ==
  IF OccursAt(S_www, NetlocOrPath(url), 1)
  THEN SubSeq(NetlocOrPath(url), 5, Len(NetlocOrPath(url)))
  ELSE NetlocOrPath(url)

\* s.replace(old, ""), from position k
RECURSIVE Remove(_, _, _)
Remove(s, old, k) ==
  IF k > Len(s) THEN <<>>
  ELSE IF OccursAt(old, s, k) THEN Remove(s, old, k + Len(old))
  ELSE <<s[k]>> \o Remove(s, old, k + 1)

\* c if c.isalnum() or c in ('_', '-') else '_'
SafeChar(c) ==
  IF LowerChar(c) \in LowerLetters \cup Digits \cup {"_", "-"} THEN c ELSE "_"

FilenameLen == 50

\* c if c.isalnum() or c in ('_', '-') else '_', on every character
SafeChars(s) == [i \in 1..Len(s) |-> SafeChar(s[i])]

\* get_safe_filename(url): the dots, slashes, colons and every other
\* character out of [A-Za-z0-9_-] become underscores
SafeDomain(url) ==
  Slice(SafeChars(Remove(NetlocOrPath(url), S_www, 1)), 0, FilenameLen)

get_safe_filename(url) ==
  <<"d", "i", "a", "g", "n", "o", "s", "i", "s", "_">> \o SafeDomain(url)
  \o <<".", "j", "s", "o", "n">>

\* os.path.join('results', filename)
OutputPath(filename) ==
  <<"r", "e", "s", "u", "l", "t", "s", "/">> \o filename

(***************************************************************************)
(* diagnose_site: one run, as the steps between its calls into the browser *)
(* session.  What the session answers (the outcome of a navigation, the    *)
(* markup, the live findings, the paint timing, a fault, the console       *)
(* messages of the page) is chosen by the environment at each call.        *)
(***************************************************************************)

VARIABLES
  pc,             \* the position of the run in diagnose_site
  result,         \* the result dict
  html,           \* the markup retrieved so far ("" before)
  browser_techs,  \* the findings of the live introspector
  detected_techs, \* the merged technology list
  playwright,     \* the sync_playwright() context: "idle", "running", "stopped"
  browser,        \* the browser session: "none", "open", "closed"
  nav,            \* the outcomes of the page.goto calls made, in order
  steps,          \* the steps of the run performed so far, in order
  found_at,       \* match.start() of the match each finding was recorded at
  exc,            \* the exception caught by the outer try, or leaving the run
  events,         \* the number of console messages the page has emitted
  page,           \* what the page shows to each detector of the introspector
  caller,         \* the caller the run has handed its outcome to, or "none"
  collab,         \* what the observation generator met, None if not called
  sampler         \* the promise of the paint-timing script, its observer and timer

vars ==
  <<pc, result, html, browser_techs, detected_techs, playwright, browser,
    nav, steps, found_at, exc, events, page, caller, collab, sampler>>

\* the console messages one page emits in one run, at most
MaxConsoleEvents == 2

\* the URLs diagnosed
Urls ==
  {<<"h", "t", "t", "p", "s", ":", "/", "/", "w", "w", "w", ".", "e", "x",
     "a", "m", "p", "l", "e", ".", "c", "o", "m", "/">>}

\* <html><body><p>hello</p></body></html>
M_clean ==
  <<"<", "h", "t", "m", "l", ">", "<", "b", "o", "d", "y", ">", "<", "p",
    ">", "h", "e", "l", "l", "o", "<", "/", "p", ">", "<", "/", "b", "o",
    "d", "y", ">", "<", "/", "h", "t", "m", "l", ">">>

\* <script src="jquery-1.8.3.min.js">
M_jquery_1_8_3 ==
  <<"<", "s", "c", "r", "i", "p", "t", " ", "s", "r", "c", "=", "\"", "j",
    "q", "u", "e", "r", "y", "-", "1", ".", "8", ".", "3", ".", "m", "i",
    "n", ".", "j", "s", "\"", ">">>

\* <script src="jquery.validate.min.js">
M_jquery_plugin ==
  <<"<", "s", "c", "r", "i", "p", "t", " ", "s", "r", "c", "=", "\"", "j",
    "q", "u", "e", "r", "y", ".", "v", "a", "l", "i", "d", "a", "t", "e",
    ".", "m", "i", "n", ".", "j", "s", "\"", ">">>

\* <script src="plugins/jquery-1.7.tooltip.js">
M_jquery_plugin_versioned ==
  <<"<", "s", "c", "r", "i", "p", "t", " ", "s", "r", "c", "=", "\"", "p",
    "l", "u", "g", "i", "n", "s", "/", "j", "q", "u", "e", "r", "y", "-",
    "1", ".", "7", ".", "t", "o", "o", "l", "t", "i", "p", ".", "j", "s",
    "\"", ">">>

\* <script src="angular.min.js?v=1.5"></script><script src="angular.min.js?v=1.5"></script>
M_angular_1_5_twice ==
  <<"<", "s", "c", "r", "i", "p", "t", " ", "s", "r", "c", "=", "\"", "a",
    "n", "g", "u", "l", "a", "r", ".", "m", "i", "n", ".", "j", "s", "?",
    "v", "=", "1", ".", "5", "\"", ">", "<", "/", "s", "c", "r", "i", "p",
    "t", ">", "<", "s", "c", "r", "i", "p", "t", " ", "s", "r", "c", "=",
    "\"", "a", "n", "g", "u", "l", "a", "r", ".", "m", "i", "n", ".", "j",
    "s", "?", "v", "=", "1", ".", "5", "\"", ">", "<", "/", "s", "c", "r",
    "i", "p", "t", ">">>

\* <script src="angular.js?v=1.2"></script><script src="angular.js?v=1.2"></script><script src="angular.js?v=1.2"></script>
M_angular_1_2_thrice ==
  <<"<", "s", "c", "r", "i", "p", "t", " ", "s", "r", "c", "=", "\"", "a",
    "n", "g", "u", "l", "a", "r", ".", "j", "s", "?", "v", "=", "1", ".",
    "2", "\"", ">", "<", "/", "s", "c", "r", "i", "p", "t", ">", "<", "s",
    "c", "r", "i", "p", "t", " ", "s", "r", "c", "=", "\"", "a", "n", "g",
    "u", "l", "a", "r", ".", "j", "s", "?", "v", "=", "1", ".", "2", "\"",
    ">", "<", "/", "s", "c", "r", "i", "p", "t", ">", "<", "s", "c", "r",
    "i", "p", "t", " ", "s", "r", "c", "=", "\"", "a", "n", "g", "u", "l",
    "a", "r", ".", "j", "s", "?", "v", "=", "1", ".", "2", "\"", ">", "<",
    "/", "s", "c", "r", "i", "p", "t", ">">>

\* <link href="bootstrap-3.3.7.min.css"><script src="angular.min.js?v=1.5"></script><script src="angular.min.js?v=1.5"></script>
M_angular_1_5_after_css ==
  <<"<", "l", "i", "n", "k", " ", "h", "r", "e", "f", "=", "\"", "b", "o",
    "o", "t", "s", "t", "r", "a", "p", "-", "3", ".", "3", ".", "7", ".",
    "m", "i", "n", ".", "c", "s", "s", "\"", ">", "<", "s", "c", "r", "i",
    "p", "t", " ", "s", "r", "c", "=", "\"", "a", "n", "g", "u", "l", "a",
    "r", ".", "m", "i", "n", ".", "j", "s", "?", "v", "=", "1", ".", "5",
    "\"", ">", "<", "/", "s", "c", "r", "i", "p", "t", ">", "<", "s", "c",
    "r", "i", "p", "t", " ", "s", "r", "c", "=", "\"", "a", "n", "g", "u",
    "l", "a", "r", ".", "m", "i", "n", ".", "j", "s", "?", "v", "=", "1",
    ".", "5", "\"", ">", "<", "/", "s", "c", "r", "i", "p", "t", ">">>

\* <script src="react/16.3.0/react.min.js">
M_react_16_3_0 ==
  <<"<", "s", "c", "r", "i", "p", "t", " ", "s", "r", "c", "=", "\"", "r",
    "e", "a", "c", "t", "/", "1", "6", ".", "3", ".", "0", "/", "r", "e",
    "a", "c", "t", ".", "m", "i", "n", ".", "j", "s", "\"", ">">>

\* <script src="jquery-ui.min.js?v=1.10.4">
M_jquery_ui_1_10 ==
  <<"<", "s", "c", "r", "i", "p", "t", " ", "s", "r", "c", "=", "\"", "j",
    "q", "u", "e", "r", "y", "-", "u", "i", ".", "m", "i", "n", ".", "j",
    "s", "?", "v", "=", "1", ".", "1", "0", ".", "4", "\"", ">">>

\* <script src="react-dom.js"></script><script src="react/16.3.0/react.min.js">
M_react_dom_then_16_3_0 ==
  <<"<", "s", "c", "r", "i", "p", "t", " ", "s", "r", "c", "=", "\"", "r",
    "e", "a", "c", "t", "-", "d", "o", "m", ".", "j", "s", "\"", ">", "<",
    "/", "s", "c", "r", "i", "p", "t", ">", "<", "s", "c", "r", "i", "p",
    "t", " ", "s", "r", "c", "=", "\"", "r", "e", "a", "c", "t", "/", "1",
    "6", ".", "3", ".", "0", "/", "r", "e", "a", "c", "t", ".", "m", "i",
    "n", ".", "j", "s", "\"", ">">>

\* the markups page.content() can return
Markups ==
  {M_clean, M_jquery_1_8_3, M_jquery_plugin, M_jquery_plugin_versioned,
   M_angular_1_5_twice, M_angular_1_2_thrice, M_angular_1_5_after_css,
   M_react_16_3_0, M_jquery_ui_1_10, M_react_dom_then_16_3_0}

\* the exceptions a call into the browser session can raise: Playwright's
\* TimeoutError, and any other error
Faults ==
  {[type |-> "TimeoutError", text |-> "Timeout 30000ms exceeded."],
   [type |-> "Error", text |-> "net::ERR_NAME_NOT_RESOLVED"]}

\* the console messages a page can emit: msg.type, msg.text and the
\* msg.location dict
ConsoleMessages ==
  <<[type |-> "error", text |-> "Uncaught TypeError: x is undefined",
     location |-> [url |-> "https://www.example.com/app.js", lineNumber |-> "7"]],
    [type |-> "error", text |-> "Failed to load resource",
     location |-> <<>>],
    [type |-> "warning", text |-> "deprecated API",
     location |-> [url |-> "https://www.example.com/app.js"]]>>

\* the start times a first-contentful-paint entry can have, in tenths of a
\* millisecond: 0.4, 1199.6, 1250.4, 3000.4 and 3000.5 ms
StartTimes == {4, 11996, 12504, 30004, 30005}

\* Math.round of a non-negative time given in tenths: half a millisecond
\* rounds up
MathRound(tenths) == (tenths + 5) \div 10

\* the values the paint-timing script can resolve to: null, or the rounded
\* start time of the first-contentful-paint entry
FcpValues == {None} \cup {<<MathRound(t)>> : t \in StartTimes}

S_first_paint == "first-paint"

S_first_contentful_paint == "first-contentful-paint"

\* the paint entries of a page whose first contentful paint was at t
PaintEntries(t) ==
  <<[name |-> S_first_paint, startTime |-> 3],
    [name |-> S_first_contentful_paint, startTime |-> t]>>

\* the lists of paint entries the page can hold, or hand to an observer:
\* none, the first paint alone, or both paints
EntryLists ==
  {<<>>, <<[name |-> S_first_paint, startTime |-> 3]>>}
  \cup {PaintEntries(t) : t \in StartTimes}

\* an entry chooser that takes the first paint entry of the list
FirstEntry(entries) ==
  IF entries = <<>> THEN <<>> ELSE <<entries[1]>>

\* entries.find(entry => entry.name === 'first-contentful-paint'), <<>>
\* when there is none
FcpEntry(entries) ==
  IF \E i \in 1..Len(entries) : entries[i].name = S_first_contentful_paint
  THEN <<entries[CHOOSE i \in 1..Len(entries) :
                   /\ entries[i].name = S_first_contentful_paint
                   /\ \A h \in 1..(i - 1) :
                        entries[h].name # S_first_contentful_paint]>>
  ELSE <<>>

\* no paint-timing script is running
NoSampler ==
  [settled |-> FALSE, value |-> None, observer |-> "none", timer |-> "unset",
   entry |-> <<>>, observed |-> <<>>]

\* a resolve that overwrites the value of a settled promise
ResolveAgain(promise, value) ==
  [promise EXCEPT !.settled = TRUE, !.value = value]

\* resolve(value): a promise settles once
Resolve(promise, value) ==
  IF promise.settled THEN promise
  ELSE [promise EXCEPT !.settled = TRUE, !.value = value]

\* the executor of the promise: the entry that exists already resolves it;
\* otherwise the observer is registered and the 5-second timer armed, or
\* observe() throws and the promise resolves to null
StartSampler(fcpEntry, observe_throws) ==
  IF fcpEntry # <<>>
  THEN Resolve([NoSampler EXCEPT !.entry = fcpEntry],
               <<MathRound(fcpEntry[1].startTime)>>)
  ELSE IF observe_throws
  THEN Resolve(NoSampler, None)
  ELSE [NoSampler EXCEPT !.observer = "observing", !.timer = "armed"]

\* the callback of the observer for one list of entries
ObserverSees(promise, fcpEntry) ==
  IF fcpEntry # <<>>
  THEN Resolve([promise EXCEPT !.observer = "disconnected",
                               !.observed = fcpEntry],
               <<MathRound(fcpEntry[1].startTime)>>)
  ELSE promise

\* the callback of the timer
TimerSees(promise) ==
  Resolve([promise EXCEPT !.observer = "disconnected", !.timer = "fired"], None)

S_react == <<"r", "e", "a", "c", "t">>

V_16_3_0 == <<"1", "6", ".", "3", ".", "0">>

S_nextjs == <<"n", "e", "x", "t", "j", "s">>

\* the detectors of the script detect_technologies_via_browser evaluates
\* in the page, in the order they are written inside its try block
Detectors ==
  <<"jQuery", "AngularJS", "React", "Next.js", "Nuxt", "Bootstrap",
    "Lodash/Underscore", "Moment", "Socket.io", "meta generator",
    "script src">>

DetectorNames == {Detectors[k] : k \in 1..Len(Detectors)}

\* A page, as the script sees it.  The version markers hold the version
\* text, None when the object or its version is missing: jquery is
\* window.jQuery.fn.jquery, angular window.angular.version.full, hook the
\* version of the first renderer of the React DevTools hook that has one,
\* React window.React.version, next window.next.version, bootstrap
\* window.bootstrap.Tooltip.VERSION, lodash window._.VERSION, moment
\* window.moment.version, io window.io.version.  body tells whether
\* document.body is an element, fiber whether the body, a child of it or a
\* root element carries a React fiber key, reactroot whether an element has
\* data-reactroot or data-reactid, next_data and nuxt whether
\* window.__NEXT_DATA__ and window.__NUXT__ are set, template_settings
\* whether window._.templateSettings is.  metas are the contents of the
\* generator meta tags and scripts the src of the script elements.
Quiet ==
  [jquery |-> None, angular |-> None, body |-> TRUE, fiber |-> FALSE,
   hook |-> None, React |-> None, reactroot |-> FALSE, next_data |-> FALSE,
   next |-> None, nuxt |-> FALSE, bootstrap |-> None, lodash |-> None,
   template_settings |-> FALSE, moment |-> None, io |-> None,
   metas |-> <<>>, scripts |-> <<>>]

\* the call add(name, version, confidence), confidence 'high' by default:
\* version || null
AddCall(name, version, confidence) ==
  [name |-> name, version |-> version, confidence |-> confidence]

\* a detector that adds one finding when its marker has a version
WhenVersion(name, version, confidence) ==
  IF version # None THEN <<AddCall(name, version, confidence)>> ELSE <<>>

\* the React detector after the search for fiber keys
ReactCalls(env) ==
  IF env.hook # None THEN <<AddCall(S_react, env.hook, "high")>>
  ELSE IF env.fiber THEN <<AddCall(S_react, None, "high")>>
  ELSE IF env.React # None THEN <<AddCall(S_react, env.React, "high")>>
  ELSE IF env.reactroot THEN <<AddCall(S_react, None, "high")>>
  ELSE IF env.next_data \/ env.next # None
    THEN <<AddCall(S_react, None, "high")>>
  ELSE <<>>

NextCalls(env) ==
  IF env.next_data THEN <<AddCall(S_nextjs, None, "high")>>
  ELSE WhenVersion(S_nextjs, env.next, "high")

LodashCalls(env) ==
  IF env.template_settings
  THEN WhenVersion(<<"u", "n", "d", "e", "r", "s", "c", "o", "r", "e">>,
                   env.lodash, "medium")
  ELSE WhenVersion(<<"l", "o", "d", "a", "s", "h">>, env.lodash, "medium")

\* /wordpress\s+(\d+\.\d+(?:\.\d+)?)/
WordpressRe ==
  Cat(<<Str(S_wordpress), Plus(In(Spaces)), VersionRe>>)

\* match[1] of the match m of WordpressRe, null without a match
WordpressVersion(content, m) ==
  IF m = NoMatch THEN None
  ELSE SubSeq(content, SkipSpaces(content, m.start + Len(S_wordpress) + 1),
              m.end)

\* the systems a generator content is searched for after wordpress
GeneratorNames ==
  <<S_drupal, S_joomla,
    <<"s", "h", "o", "p", "i", "f", "y">>,
    <<"m", "a", "g", "e", "n", "t", "o">>,
    <<"w", "i", "x">>,
    <<"s", "q", "u", "a", "r", "e", "s", "p", "a", "c", "e">>>>

\* the calls for one generator meta tag
MetaCalls(content) ==
  (IF Contains(S_wordpress, content)
   THEN <<AddCall(S_wordpress,
                  WordpressVersion(content, Search(WordpressRe, content)),
                  "high")>>
   ELSE <<>>)
  \o SelectSeq([k \in 1..Len(GeneratorNames) |->
                  AddCall(GeneratorNames[k], None, "high")],
               LAMBDA t : Contains(t.name, content))

\* /([a-zA-Z0-9-]+)[.-](\d+\.\d+(?:\.\d+)?)/
NameChars == In(LowerLetters \cup Digits \cup {"-"})

VersionTail == Cat(<<In({".", "-"}), VersionRe>>)

ScriptSrcRe == Cat(<<Plus(NameChars), VersionTail>>)

\* the length of match[1] in the match that starts at position i: the
\* longest run of name characters the rest of the pattern matches after
NameLen(src, i) ==
  Greatest({n \in 1..RunLen(NameChars, src, i) :
              MatchEnd(<<VersionTail>>, src, i + n) # Fail})

S_vue == <<"v", "u", "e">>

S_angular == <<"a", "n", "g", "u", "l", "a", "r">>

S_bootstrap == <<"b", "o", "o", "t", "s", "t", "r", "a", "p">>

\* the library a file name is taken for
Normalize(name) ==
  IF Contains(S_jquery, name) /\ ~Contains(S_ui, name) THEN S_jquery
  ELSE IF Contains(S_bootstrap, name) THEN S_bootstrap
  ELSE IF Contains(S_vue, name) THEN S_vue
  ELSE IF Contains(S_react, name) THEN S_react
  ELSE IF Contains(S_angular, name) THEN S_angular
  ELSE name

\* the libraries a script src is reported for
ScriptLibraries ==
  {S_jquery, S_bootstrap, S_vue, S_react, S_angular, S_angularjs,
   <<"m", "o", "m", "e", "n", "t">>,
   <<"l", "o", "d", "a", "s", "h">>,
   <<"u", "n", "d", "e", "r", "s", "c", "o", "r", "e">>,
   <<"b", "a", "c", "k", "b", "o", "n", "e">>,
   <<"k", "n", "o", "c", "k", "o", "u", "t">>}

\* the call for the match m of ScriptSrcRe in src, with the length n of
\* match[1]
ScriptCall(src, m, n) ==
  IF Normalize(Lower(SubSeq(src, m.start + 1, m.start + n)))
       \in ScriptLibraries
  THEN <<AddCall(Normalize(Lower(SubSeq(src, m.start + 1, m.start + n))),
                 SubSeq(src, m.start + n + 2, m.end), "medium")>>
  ELSE <<>>

ScriptMatchCalls(src, m) ==
  IF m = NoMatch THEN <<>> ELSE ScriptCall(src, m, NameLen(src, m.start + 1))

\* the calls for one script element
ScriptCalls(src) == ScriptMatchCalls(src, Search(ScriptSrcRe, src))

\* the calls of a forEach over the items
RECURSIVE ForEach(_, _, _)
ForEach(Calls(_), items, k) ==
  IF k > Len(items) THEN <<>>
  ELSE Calls(items[k]) \o ForEach(Calls, items, k + 1)

\* what a detector does on the page: the add calls it makes, and whether
\* it throws after them.  The React detector reads document.body.children
\* when the body has no fiber key, which throws when document.body is null.
Outcome(env, d) ==
  CASE d = "jQuery" ->
         [adds |-> WhenVersion(S_jquery, env.jquery, "high"), throws |-> FALSE]
    [] d = "AngularJS" ->
         [adds |-> WhenVersion(S_angularjs, env.angular, "high"),
          throws |-> FALSE]
    [] d = "React" ->
         IF env.body THEN [adds |-> ReactCalls(env), throws |-> FALSE]
         ELSE [adds |-> <<>>, throws |-> TRUE]
    [] d = "Next.js" -> [adds |-> NextCalls(env), throws |-> FALSE]
    [] d = "Nuxt" ->
         [adds |-> IF env.nuxt
                   THEN <<AddCall(<<"n", "u", "x", "t">>, None, "high")>>
                   ELSE <<>>,
          throws |-> FALSE]
    [] d = "Bootstrap" ->
         [adds |-> WhenVersion(S_bootstrap, env.bootstrap, "medium"),
          throws |-> FALSE]
    [] d = "Lodash/Underscore" -> [adds |-> LodashCalls(env), throws |-> FALSE]
    [] d = "Moment" ->
         [adds |-> WhenVersion(<<"m", "o", "m", "e", "n", "t">>, env.moment,
                               "medium"),
          throws |-> FALSE]
    [] d = "Socket.io" ->
         [adds |-> WhenVersion(<<"s", "o", "c", "k", "e", "t", "i", "o">>,
                               env.io, "medium"),
          throws |-> FALSE]
    [] d = "meta generator" ->
         [adds |-> ForEach(MetaCalls, [k \in 1..Len(env.metas) |->
                                         Lower(env.metas[k])], 1),
          throws |-> FALSE]
    [] d = "script src" ->
         [adds |-> ForEach(ScriptCalls, env.scripts, 1), throws |-> FALSE]

\* a const add: the finding is pushed unless its name:version key was seen
Add(techs, t) ==
  IF \E i \in 1..Len(techs) :
       techs[i].name = t.name /\ techs[i].version = t.version
  THEN techs
  ELSE Append(techs, t)

RECURSIVE AddAll(_, _, _)
AddAll(techs, calls, i) ==
  IF i > Len(calls) THEN techs
  ELSE AddAll(Add(techs, calls[i]), calls, i + 1)

\* one detector has run: the list after its calls, and the detectors after
\* it unless it threw
RECURSIVE RunDetectors(_, _, _)
AfterDetector(env, k, techs, outcome) ==
  IF outcome.throws THEN AddAll(techs, outcome.adds, 1)
  ELSE RunDetectors(env, k + 1, AddAll(techs, outcome.adds, 1))

\* the try block holds all the detectors: a throw in one of them leaves the
\* block, and the findings added before it are returned
RunDetectors(env, k, techs) ==
  IF k > Len(Detectors) THEN techs
  ELSE AfterDetector(env, k, techs, Outcome(env, Detectors[k]))

detect_technologies_via_browser(env) == RunDetectors(env, 1, <<>>)

\* a page without libraries
P_plain == Quiet

\* a page whose body carries a React fiber key
P_react == [Quiet EXCEPT !.fiber = TRUE]

V_2_29_1 == <<"2", ".", "2", "9", ".", "1">>

\* a page with window.jQuery.fn.jquery = "1.8.3" and
\* window.moment.version = "2.29.1"
P_jquery ==
  [Quiet EXCEPT !.jquery = <<"1", ".", "8", ".", "3">>, !.moment = V_2_29_1]

\* a React page that loads js/react.16.3.0.min.js
P_react_src ==
  [P_react EXCEPT !.scripts =
     <<<<"h", "t", "t", "p", "s", ":", "/", "/", "w", "w", "w", ".", "e",
         "x", "a", "m", "p", "l", "e", ".", "c", "o", "m", "/", "j", "s",
         "/", "r", "e", "a", "c", "t", ".", "1", "6", ".", "3", ".", "0",
         ".", "m", "i", "n", ".", "j", "s">>>>]

V_17_0_2 == <<"1", "7", ".", "0", ".", "2">>

\* a page whose React DevTools hook has a renderer of version 17.0.2
P_react_17 == [Quiet EXCEPT !.hook = V_17_0_2]

\* a document without a body element (document.body is null, so
\* document.body.children throws in the React detector), with
\* window.jQuery 1.8.3 and window.__NEXT_DATA__
P_no_body ==
  [Quiet EXCEPT !.jquery = <<"1", ".", "8", ".", "3">>, !.body = FALSE,
                !.next_data = TRUE]

\* the pages diagnosed
Pages == {P_plain, P_react, P_jquery, P_react_src, P_react_17, P_no_body}

\* the domain and the file name of each URL diagnosed, computed once
DomainTable == {<<u, extract_domain(u)>> : u \in Urls}

FilenameTable == {<<u, get_safe_filename(u)>> : u \in Urls}

DomainOf(url) == (CHOOSE p \in DomainTable : p[1] = url)[2]

FilenameOf(url) == (CHOOSE p \in FilenameTable : p[1] = url)[2]

\* the static findings and the vulnerability findings of each markup the
\* page can hold, computed once
StaticTable == {<<m, detect_technologies_static(m)>> : m \in Markups}

ScanTable == {<<m, ScanVulnerabilities(m)>> : m \in Markups \cup {<<>>}}

StaticFindingsOf(markup) == (CHOOSE p \in StaticTable : p[1] = markup)[2]

ScanFindingsOf(markup) == (CHOOSE p \in ScanTable : p[1] = markup)[2]

\* an FCP above this many milliseconds is slow
SlowFcpMs == 3000

Init ==
  /\ pc = "launch"
  /\ \E url \in Urls :
       result = [url |-> url,
                 console_errors |-> <<>>,
                 first_contentful_paint_ms |-> None,
                 vulnerabilities |-> <<>>,
                 status |-> "unknown"]
  /\ html = <<>>
  /\ browser_techs = <<>>
  /\ detected_techs = <<>>
  /\ playwright = "running"
  /\ browser = "none"
  /\ nav = <<>>
  /\ steps = <<>>
  /\ found_at = <<>>
  /\ exc = None
  /\ events = 0
  /\ page \in Pages
  /\ caller = "none"
  /\ collab = None
  /\ sampler = NoSampler

\* an exception leaves diagnose_site: the with block stops Playwright on
\* the way out
Raise(f) ==
  /\ exc' = <<f>>
  /\ playwright' = "stopped"
  /\ pc' = "raised"

\* p.chromium.launch(headless=True)
Launch ==
  /\ pc = "launch"
  /\ \/ /\ browser' = "open"
        /\ pc' = "new_context"
        /\ UNCHANGED <<exc, playwright>>
     \/ /\ \E f \in Faults : Raise(f)
        /\ UNCHANGED browser
  /\ UNCHANGED <<result, html, browser_techs, detected_techs, nav, steps,
                 found_at, events>>
  /\ UNCHANGED <<page, caller, collab, sampler>>

\* browser.new_context()
NewContext ==
  /\ pc = "new_context"
  /\ \/ /\ pc' = "new_page"
        /\ UNCHANGED <<exc, playwright>>
     \/ \E f \in Faults : Raise(f)
  /\ UNCHANGED <<result, html, browser_techs, detected_techs, browser, nav,
                 steps, found_at, events>>
  /\ UNCHANGED <<page, caller, collab, sampler>>

\* context.new_page(), page.on("console", handle_console) and the locals
NewPage ==
  /\ pc = "new_page"
  /\ \/ /\ pc' = "goto1"
        /\ html' = <<>>
        /\ detected_techs' = <<>>
        /\ UNCHANGED <<exc, playwright>>
     \/ /\ \E f \in Faults : Raise(f)
        /\ UNCHANGED <<html, detected_techs>>
  /\ UNCHANGED <<result, browser_techs, browser, nav, steps, found_at, events>>
  /\ UNCHANGED <<page, caller, collab, sampler>>

\* the text appended for a console error: the message and, when the
\* location is known, " (<url>:<lineNumber or ?>)"
ConsoleErrorText(msg) ==
  IF DOMAIN msg.location # {}
  THEN <<msg.text, " (", msg.location.url, ":",
         IF "lineNumber" \in DOMAIN msg.location
         THEN msg.location.lineNumber ELSE "?",
         ")">>
  ELSE <<msg.text>>

\* The sync API runs the handlers of the page while the run is inside a
\* call into the browser session: the call the run is about to make at pc.
InBrowserCall ==
  \/ pc \in {"goto1", "goto2", "introspect", "content", "fcp", "fcp_wait",
             "except_timeout", "except_error", "close"}
  \/ pc = "scan" /\ html = <<>>

\* handle_console, for one console message of the page
handle_console ==
  /\ InBrowserCall
  /\ events < MaxConsoleEvents
  /\ events' = events + 1
  /\ \E i \in 1..Len(ConsoleMessages) :
       LET msg == ConsoleMessages[i]
       IN  IF msg.type = "error"
           THEN result' = [result EXCEPT !.console_errors =
                                           Append(@, ConsoleErrorText(msg))]
           ELSE UNCHANGED result
  /\ UNCHANGED <<pc, html, browser_techs, detected_techs, playwright, browser,
                 nav, steps, found_at, exc>>
  /\ UNCHANGED <<page, caller, collab, sampler>>

\* the outer try catches f: except TimeoutError, or except Exception
Catch(f) ==
  /\ exc' = <<f>>
  /\ pc' = IF f.type = "TimeoutError" THEN "except_timeout" ELSE "except_error"

\* a first attempt whose every failure leads to the second attempt
GotoNetworkIdleRetryAny ==
  /\ pc = "goto1"
  /\ \/ /\ nav' = Append(nav, "ok")
        /\ pc' = "introspect"
     \/ /\ nav' \in {Append(nav, "timeout"), Append(nav, "error")}
        /\ pc' = "goto2"
  /\ steps' = Append(steps, "goto_networkidle")
  /\ UNCHANGED <<result, html, browser_techs, detected_techs, playwright,
                 browser, found_at, exc, events>>
  /\ UNCHANGED <<page, caller, collab, sampler>>

\* page.goto(url, wait_until="networkidle", timeout=30000)
GotoNetworkIdle ==
  /\ pc = "goto1"
  /\ \/ /\ nav' = Append(nav, "ok")
        /\ pc' = "introspect"
        /\ UNCHANGED exc
     \/ /\ nav' = Append(nav, "timeout")
        /\ pc' = "goto2"
        /\ UNCHANGED exc
     \/ /\ nav' = Append(nav, "error")
        /\ \E f \in Faults : f.type # "TimeoutError" /\ Catch(f)
  /\ steps' = Append(steps, "goto_networkidle")
  /\ UNCHANGED <<result, html, browser_techs, detected_techs, playwright,
                 browser, found_at, events>>
  /\ UNCHANGED <<page, caller, collab, sampler>>

\* page.goto(url, wait_until="domcontentloaded", timeout=30000)
GotoDomContentLoaded ==
  /\ pc = "goto2"
  /\ \/ /\ nav' = Append(nav, "ok")
        /\ pc' = "introspect"
        /\ UNCHANGED exc
     \/ /\ nav' = Append(nav, "timeout")
        /\ pc' = "introspect"
        /\ UNCHANGED exc
     \/ /\ nav' = Append(nav, "error")
        /\ \E f \in Faults : f.type # "TimeoutError" /\ Catch(f)
  /\ steps' = Append(steps, "goto_domcontentloaded")
  /\ UNCHANGED <<result, html, browser_techs, detected_techs, playwright,
                 browser, found_at, events>>
  /\ UNCHANGED <<page, caller, collab, sampler>>

\* browser_techs = detect_technologies_via_browser(page), [] on a fault
DetectViaBrowser ==
  /\ pc = "introspect"
  /\ \/ /\ browser_techs' = detect_technologies_via_browser(page)
        /\ steps' = Append(steps, "introspect")
     \/ /\ browser_techs' = <<>>
        /\ steps' = Append(steps, "introspect_failed")
  /\ pc' = "content"
  /\ UNCHANGED <<result, html, detected_techs, playwright, browser, nav,
                 found_at, exc, events>>
  /\ UNCHANGED <<page, caller, collab, sampler>>

\* html = page.content(), the static matcher and the fusion; the live
\* findings alone when the markup cannot be retrieved
GetContent ==
  /\ pc = "content"
  /\ \/ \E markup \in Markups :
          /\ html' = markup
          /\ detected_techs' =
               merge_detected_techs(browser_techs, StaticFindingsOf(markup))
     \/ /\ detected_techs' = merge_detected_techs(browser_techs, <<>>)
        /\ UNCHANGED html
  /\ pc' = "fcp"
  /\ steps' = Append(steps, "content")
  /\ UNCHANGED <<result, browser_techs, playwright, browser, nav, found_at,
                 exc, events>>
  /\ UNCHANGED <<page, caller, collab, sampler>>

\* time.sleep(1) and the call of page.evaluate with the paint-timing
\* script: the script starts, or the call raises
MeasureFcp ==
  /\ pc = "fcp"
  /\ \/ /\ \E entries \in EntryLists, observe_throws \in BOOLEAN :
             sampler' = StartSampler(FcpEntry(entries), observe_throws)
        /\ pc' = "fcp_wait"
        /\ UNCHANGED exc
     \/ /\ \E f \in Faults : Catch(f)
        /\ UNCHANGED sampler
  /\ steps' = Append(steps, "fcp")
  /\ UNCHANGED <<result, html, browser_techs, detected_techs, playwright,
                 browser, nav, found_at, events>>
  /\ UNCHANGED <<page, caller, collab>>

\* the PerformanceObserver callback, while the observer is connected
ObserverCallback ==
  /\ pc = "fcp_wait"
  /\ sampler.observer = "observing"
  /\ \E entries \in EntryLists :
       sampler' = ObserverSees(sampler, FcpEntry(entries))
  /\ UNCHANGED <<pc, result, html, browser_techs, detected_techs, playwright,
                 browser, nav, steps, found_at, exc, events>>
  /\ UNCHANGED <<page, caller, collab>>

\* the setTimeout callback, 5 seconds after the observer was registered
TimerFires ==
  /\ pc = "fcp_wait"
  /\ sampler.timer = "armed"
  /\ sampler' = TimerSees(sampler)
  /\ UNCHANGED <<pc, result, html, browser_techs, detected_techs, playwright,
                 browser, nav, steps, found_at, exc, events>>
  /\ UNCHANGED <<page, caller, collab>>

\* page.evaluate returns the value of the settled promise
FcpReturn ==
  /\ pc = "fcp_wait"
  /\ sampler.settled
  /\ result' = [result EXCEPT !.first_contentful_paint_ms = sampler.value]
  /\ sampler' = NoSampler
  /\ pc' = "scan"
  /\ UNCHANGED <<html, browser_techs, detected_techs, playwright, browser,
                 nav, steps, found_at, exc, events>>
  /\ UNCHANGED <<page, caller, collab>>

\* the finding as the result holds it
Finding(f) ==
  [type |-> f.type, version |-> f.version, matched_text |-> f.matched_text]

\* the findings as they are stored in the result
Findings(found) == [i \in 1..Len(found) |-> Finding(found[i])]

\* where in the markup each finding was matched
FoundAt(found) == [i \in 1..Len(found) |-> found[i].at]

\* the markup is retrieved if it was not, then scanned
ScanForVulnerabilities ==
  /\ pc = "scan"
  /\ \E markup \in (IF html = <<>> THEN Markups \cup {<<>>} ELSE {html}) :
       /\ html' = markup
       /\ result' = [result EXCEPT !.vulnerabilities =
                       Findings(ScanFindingsOf(markup))]
       /\ found_at' = FoundAt(ScanFindingsOf(markup))
  /\ pc' = "classify"
  /\ steps' = Append(steps, "scan")
  /\ UNCHANGED <<browser_techs, detected_techs, playwright, browser, nav,
                 exc, events>>
  /\ UNCHANGED <<page, caller, collab, sampler>>

\* a classification whose last branch assigns nothing
StatusWithoutElse(console_errors, vulnerabilities, fcp) ==
  IF console_errors # <<>> \/ vulnerabilities # <<>> THEN "at_risk"
  ELSE IF fcp # None /\ fcp[1] # 0 /\ fcp[1] > SlowFcpMs THEN "at_risk"
  ELSE "unknown"

\* a classification that counts an FCP of exactly the threshold as slow
StatusSlowAtThreshold(console_errors, vulnerabilities, fcp) ==
  IF console_errors # <<>> \/ vulnerabilities # <<>> THEN "at_risk"
  ELSE IF fcp # None /\ fcp[1] # 0 /\ fcp[1] >= SlowFcpMs THEN "at_risk"
  ELSE "clean"

\* the overall status of a run that reached the classification
Status(console_errors, vulnerabilities, fcp) ==
  IF console_errors # <<>> \/ vulnerabilities # <<>> THEN "at_risk"
  ELSE IF fcp # None /\ fcp[1] # 0 /\ fcp[1] > SlowFcpMs THEN "at_risk"
  ELSE "clean"

Classify ==
  /\ pc = "classify"
  /\ result' = [result EXCEPT !.status =
                  Status(result.console_errors, result.vulnerabilities,
                         result.first_contentful_paint_ms)]
  /\ pc' = "close"
  /\ steps' = Append(steps, "classify")
  /\ UNCHANGED <<html, browser_techs, detected_techs, playwright, browser,
                 nav, found_at, exc, events>>
  /\ UNCHANGED <<page, caller, collab, sampler>>

\* a recovery that merges the live findings with the static ones
RecoverWithLive ==
  \/ \E markup \in Markups :
       /\ html' = markup
       /\ detected_techs' =
            merge_detected_techs(browser_techs, StaticFindingsOf(markup))
  \/ UNCHANGED <<html, detected_techs>>

\* the best-effort technology detection of the except blocks: the static
\* findings of the markup, if it can be retrieved
Recover ==
  \/ \E markup \in Markups :
       /\ html' = markup
       /\ detected_techs' =
            merge_detected_techs(<<>>, StaticFindingsOf(markup))
  \/ UNCHANGED <<html, detected_techs>>

\* except TimeoutError
ExceptTimeout ==
  /\ pc = "except_timeout"
  /\ result' = ("error" :> "Page load timeout after 30 seconds")
                 @@ [result EXCEPT !.status = "timeout"]
  /\ Recover
  /\ pc' = "close"
  /\ UNCHANGED <<browser_techs, playwright, browser, nav, steps, found_at,
                 exc, events>>
  /\ UNCHANGED <<page, caller, collab, sampler>>

\* an except block that stores a fixed text
ExceptErrorFixedText ==
  /\ pc = "except_error"
  /\ result' = ("error" :> "Unexpected error")
                 @@ [result EXCEPT !.status = "error"]
  /\ Recover
  /\ pc' = "close"
  /\ UNCHANGED <<browser_techs, playwright, browser, nav, steps, found_at,
                 exc, events>>
  /\ UNCHANGED <<page, caller, collab, sampler>>

\* except Exception as e
ExceptError ==
  /\ pc = "except_error"
  /\ result' = ("error" :> exc[1].text)
                 @@ [result EXCEPT !.status = "error"]
  /\ Recover
  /\ pc' = "close"
  /\ UNCHANGED <<browser_techs, playwright, browser, nav, steps, found_at,
                 exc, events>>
  /\ UNCHANGED <<page, caller, collab, sampler>>

\* finally: browser.close(), and the end of the with block
CloseBrowser ==
  /\ pc = "close"
  /\ \/ /\ browser' = "closed"
        /\ playwright' = "stopped"
        /\ pc' = "assemble"
        /\ UNCHANGED exc
     \/ /\ \E f \in Faults : Raise(f)
        /\ UNCHANGED browser
  /\ UNCHANGED <<result, html, browser_techs, detected_techs, nav, steps,
                 found_at, events>>
  /\ UNCHANGED <<page, caller, collab, sampler>>

\* a count of the distinct console errors
ConsoleErrorCountDistinct(console_errors) ==
  Cardinality({console_errors[i] : i \in 1..Len(console_errors)})

\* a flag raised by several findings only
VulnerabilityDetectedSeveral(vulnerabilities) == Len(vulnerabilities) > 1

\* console_error_count of the result
ConsoleErrorCount(console_errors) == Len(console_errors)

\* vulnerability_detected of the result
VulnerabilityDetected(vulnerabilities) == Len(vulnerabilities) > 0

\* a return that classifies the run once more
AssembleReclassified ==
  /\ pc = "assemble"
  /\ result' = [domain |-> DomainOf(result.url),
                tech |-> format_tech_name(result.vulnerabilities, detected_techs),
                console_error_count |-> ConsoleErrorCount(result.console_errors),
                load_time |-> format_load_time(result.first_contentful_paint_ms),
                vulnerability_detected |-> VulnerabilityDetected(result.vulnerabilities)]
                 @@ [result EXCEPT !.status =
                       Status(result.console_errors, result.vulnerabilities,
                              result.first_contentful_paint_ms)]
  /\ pc' = "returned"
  /\ steps' = Append(steps, "assemble")
  /\ UNCHANGED <<html, browser_techs, detected_techs, playwright, browser,
                 nav, found_at, exc, events>>
  /\ UNCHANGED <<page, caller, collab, sampler>>

\* the fields added after the with block, and the return
Assemble ==
  /\ pc = "assemble"
  /\ result' = [domain |-> DomainOf(result.url),
                tech |-> format_tech_name(result.vulnerabilities, detected_techs),
                console_error_count |-> ConsoleErrorCount(result.console_errors),
                load_time |-> format_load_time(result.first_contentful_paint_ms),
                vulnerability_detected |-> VulnerabilityDetected(result.vulnerabilities)]
                 @@ result
  /\ pc' = "returned"
  /\ steps' = Append(steps, "assemble")
  /\ UNCHANGED <<html, browser_techs, detected_techs, playwright, browser,
                 nav, found_at, exc, events>>
  /\ UNCHANGED <<page, caller, collab, sampler>>

\* str.strip(): the text without its leading and trailing white space
RECURSIVE SkipSpacesBack(_, _)
SkipSpacesBack(s, k) ==
  IF k >= 1 /\ s[k] \in Spaces THEN SkipSpacesBack(s, k - 1) ELSE k

Strip(s) == SubSeq(s, SkipSpaces(s, 1), SkipSpacesBack(s, Len(s)))

\* what generate_technical_observation meets: whether the LangChain imports
\* succeeded, whether GROQ_API_KEY is set, whether building or invoking the
\* chain raises, and the content of the response
Collaborators ==
  {[available |-> FALSE, api_key |-> TRUE, fault |-> FALSE, content |-> <<>>],
   [available |-> TRUE, api_key |-> FALSE, fault |-> FALSE, content |-> <<>>],
   [available |-> TRUE, api_key |-> TRUE, fault |-> TRUE, content |-> <<>>],
   [available |-> TRUE, api_key |-> TRUE, fault |-> FALSE,
    content |-> <<" ", "\n">>],
   [available |-> TRUE, api_key |-> TRUE, fault |-> FALSE,
    content |-> <<" ", "E", "O", "L", ".", "\n">>]}

\* the observation, None when there is none
generate_technical_observation(env) ==
  IF ~env.available THEN None
  ELSE IF ~env.api_key THEN None
  ELSE IF env.fault THEN None
  ELSE Strip(env.content)

\* the field is set whatever the observation is
AttachAlways(res, text) == [technical_observation |-> text] @@ res

\* if observation: result["technical_observation"] = observation
Attach(res, text) ==
  IF text # <<>> THEN [technical_observation |-> text] @@ res ELSE res

\* the body of the loop of diagnose_multiple_sites after diagnose_site has
\* returned: the observation, and results.append(result)
DiagnoseMultipleSites ==
  /\ pc = "returned"
  /\ caller' = "diagnose_multiple_sites"
  /\ \E generate_observations \in BOOLEAN :
       IF generate_observations /\ result.vulnerability_detected
       THEN \E env \in Collaborators :
              /\ collab' = <<env>>
              /\ result' = Attach(result, generate_technical_observation(env))
       ELSE /\ collab' = None
            /\ UNCHANGED result
  /\ pc' = "appended"
  /\ UNCHANGED <<html, browser_techs, detected_techs, playwright, browser,
                 nav, steps, found_at, exc, events, page, sampler>>

\* the /diagnose route after diagnose_site has returned: the observation,
\* inside a try of its own
RouteObserve ==
  /\ pc = "returned"
  /\ caller' = "/diagnose"
  /\ IF result.vulnerability_detected
     THEN \E env \in Collaborators :
            /\ collab' = <<env>>
            /\ result' = Attach(result, generate_technical_observation(env))
     ELSE /\ collab' = None
          /\ UNCHANGED result
  /\ pc' = "save"
  /\ UNCHANGED <<html, browser_techs, detected_techs, playwright, browser,
                 nav, steps, found_at, exc, events, page, sampler>>

\* the /diagnose route writes the result to results/<filename> (a failure
\* of the write is printed and nothing else), names the file in the result
\* and answers with the result
RouteSave ==
  /\ pc = "save"
  /\ result' = [output_file |-> FilenameOf(result.url),
                output_path |-> OutputPath(FilenameOf(result.url))]
                 @@ result
  /\ pc' = "responded"
  /\ UNCHANGED <<html, browser_techs, detected_techs, playwright, browser,
                 nav, steps, found_at, exc, events, page, caller, collab,
                 sampler>>

\* the /diagnose route when diagnose_site raised: the answer is the error,
\* with HTTP status 500
RouteDiagnosisFailed ==
  /\ pc = "raised"
  /\ caller' = "/diagnose"
  /\ pc' = "failed"
  /\ UNCHANGED <<result, html, browser_techs, detected_techs, playwright,
                 browser, nav, steps, found_at, exc, events, page, collab,
                 sampler>>

Next ==
  \/ Launch
  \/ NewContext
  \/ NewPage
  \/ handle_console
  \/ GotoNetworkIdle
  \/ GotoDomContentLoaded
  \/ DetectViaBrowser
  \/ GetContent
  \/ MeasureFcp
  \/ ObserverCallback
  \/ TimerFires
  \/ FcpReturn
  \/ ScanForVulnerabilities
  \/ Classify
  \/ ExceptTimeout
  \/ ExceptError
  \/ CloseBrowser
  \/ Assemble
  \/ DiagnoseMultipleSites
  \/ RouteObserve
  \/ RouteSave
  \/ RouteDiagnosisFailed

Spec == Init /\ [][Next]_vars

(***************************************************************************)
(* Properties of diagnose_site                                             *)
(***************************************************************************)

\* the statuses a returned result may carry
TerminalStatuses == {"clean", "at_risk", "timeout", "error"}

\* the run has performed the step
Did(step) == \E i \in 1..Len(steps) : steps[i] = step

\* the run has returned its result to the caller
Returned == pc = "returned"

\* the run returned after a navigation that succeeded at once and without
\* any exception caught on the way
Completed == Returned /\ exc = None /\ nav = <<"ok">>

\* the run returned after the classification
Classified == Returned /\ Did("classify")

\* the indices of the findings whose type is the jQuery signature
JqueryFindings ==
  {i \in 1..Len(result.vulnerabilities) :
     IsJqueryTech(result.vulnerabilities[i].type)}

\* the indices of the findings whose type is an AngularJS signature
AngularFindings ==
  {i \in 1..Len(result.vulnerabilities) :
     Contains(S_angularjs, result.vulnerabilities[i].type)}

\* the pattern of the signature named key
PatternOf(key) ==
  VULNERABLE_PATTERNS[CHOOSE j \in 1..Len(VULNERABLE_PATTERNS) :
                        VULNERABLE_PATTERNS[j].key = key].pattern

S_jquery_old == S_jquery \o <<"_">> \o S_old

\* C1: diagnose_site never raises to its caller: whatever fails in the
\* browser session (launch, context or page creation, navigation, script
\* evaluation, markup retrieval, close), the run ends by returning a result
\* whose status is clean, at_risk, timeout or error.
C1_NeverRaises ==
  /\ pc # "raised"
  /\ Returned => result.status \in TerminalStatuses

\* C2: every result diagnose_site returns has a status among clean, at_risk,
\* timeout and error; the initial 'unknown' is never returned.
C2_TerminalStatus ==
  Returned => result.status \in TerminalStatuses /\ result.status # "unknown"

\* a run returns after a fault of the navigation
C2_Witness == Returned /\ result.status = "error" /\ nav = <<"error">>

\* C3: when both navigation attempts time out, diagnose_site returns
\* status = timeout with the error field set, and the run performs neither
\* the vulnerability scan nor the FCP measurement.
C3_DoubleTimeout ==
  (Returned /\ nav = <<"timeout", "timeout">>) =>
    /\ result.status = "timeout"
    /\ "error" \in DOMAIN result
    /\ ~Did("scan")
    /\ ~Did("fcp")

\* C4: in every returned result, on every path, vulnerability_detected is
\* true exactly when the vulnerabilities list is non-empty.
C4_VulnerabilityDetected ==
  Returned =>
    (result.vulnerability_detected <=> result.vulnerabilities # <<>>)

\* a run returns one finding
C4_Witness ==
  Returned /\ Len(result.vulnerabilities) = 1 /\ result.vulnerability_detected

\* C5: in every returned result console_error_count is the length of
\* console_errors, whenever the console errors arrived while the page was
\* open, the browser close included.
C5_ConsoleErrorCount ==
  Returned => result.console_error_count = Len(result.console_errors)

\* a run returns two console errors that both arrived after the
\* classification, during the browser close
C5_Witness ==
  /\ Returned
  /\ result.status = "clean"
  /\ Len(result.console_errors) = 2
  /\ result.console_error_count = 2

\* C6: in every result of a run that ended without timeout or fault, a
\* non-empty console_errors list or a non-empty vulnerabilities list
\* implies status = at_risk, wherever in the lifetime of the page the
\* console errors were captured.
C6_ErrorsImplyAtRisk ==
  (Completed /\ (result.console_errors # <<>> \/ result.vulnerabilities # <<>>))
    => result.status = "at_risk"

\* C7: a run that completes with no console errors and no vulnerabilities
\* is clean when FCP is null or at most 3000 ms and at_risk when FCP is
\* above 3000 ms: 3000 gives clean, 3001 gives at_risk.
C7_FcpBoundary ==
  (Classified /\ result.console_errors = <<>> /\ result.vulnerabilities = <<>>)
    => /\ result.status =
            IF /\ result.first_contentful_paint_ms # None
               /\ result.first_contentful_paint_ms[1] > 3000
            THEN "at_risk" ELSE "clean"
       /\ result.first_contentful_paint_ms = <<3000>> => result.status = "clean"
       /\ result.first_contentful_paint_ms = <<3001>> => result.status = "at_risk"

\* a run completes with nothing found and an FCP of exactly 3000 ms
C7_Witness ==
  /\ Completed
  /\ result.console_errors = <<>>
  /\ result.vulnerabilities = <<>>
  /\ result.first_contentful_paint_ms = <<3000>>
  /\ result.status = "clean"

\* C8: for the markup <script src="jquery-1.8.3.min.js">, the scan yields
\* exactly one finding, of the jQuery signature, with version 1.8.3.
C8_CoreJqueryFound ==
  (Did("scan") /\ html = M_jquery_1_8_3) =>
    /\ Len(result.vulnerabilities) = 1
    /\ JqueryFindings = {1}
    /\ result.vulnerabilities[1].version = <<"1", ".", "8", ".", "3">>

\* C9: the scan records no jQuery finding for a match whose following 100
\* characters contain none of jquery.js, jquery.min.js, jquery/ and
\* /jquery; markup that references jQuery plug-in files only yields no
\* jQuery finding.
C9_NoPluginJquery ==
  Did("scan") =>
    /\ \A i \in JqueryFindings :
         IsCoreJqueryText(Lower(Slice(html, found_at[i],
                                      found_at[i] + MatchedTextLen)))
    /\ html \in {M_jquery_plugin, M_jquery_plugin_versioned}
         => JqueryFindings = {}

\* the scan of a markup whose plug-in file name matches the jQuery
\* signature has recorded nothing
C9_Witness ==
  /\ Did("scan")
  /\ html = M_jquery_plugin_versioned
  /\ result.vulnerabilities = <<>>
  /\ Search(PatternOf(S_jquery_old), Lower(html)) # NoMatch

\* C10: for markup in which several script tags reference the same
\* AngularJS 1.x version, the scan yields exactly one AngularJS finding, of
\* that version, although the version-specific signature and angularjs_old
\* both match every tag.
C10_AngularOnce ==
  /\ (Did("scan") /\ html \in {M_angular_1_5_twice, M_angular_1_5_after_css}) =>
       /\ Cardinality(AngularFindings) = 1
       /\ \A i \in AngularFindings :
            result.vulnerabilities[i].version = <<"1", ".", "5">>
  /\ (Did("scan") /\ html = M_angular_1_2_thrice) =>
       /\ Cardinality(AngularFindings) = 1
       /\ \A i \in AngularFindings :
            result.vulnerabilities[i].version = <<"1", ".", "2">>

\* the dedup key of the i-th finding of the result
KeyOfFinding(i) ==
  VulnKey(result.vulnerabilities[i].type, result.vulnerabilities[i].version)

\* C11: within one result no two vulnerability findings have the same
\* dedup key (angularjs_<version>, jquery_<version>, the signature id for
\* the CMS signatures, <type>_<version> or the bare <type> otherwise).
C11_UniqueKeys ==
  \A i, j \in 1..Len(result.vulnerabilities) :
    i # j => KeyOfFinding(i) # KeyOfFinding(j)

\* a returned result holds two findings, with two keys
C11_Witness ==
  /\ Returned
  /\ Len(result.vulnerabilities) = 2
  /\ KeyOfFinding(1) # KeyOfFinding(2)

\* the sequence in the opposite order
Reverse(seq) == [i \in 1..Len(seq) |-> seq[Len(seq) + 1 - i]]

\* the sequence with its first n items moved to the end
Rotate(seq, n) == SubSeq(seq, n + 1, Len(seq)) \o SubSeq(seq, 1, n)

\* the signatures moved to the end in the rotated catalog
RotateBy == 7

\* orders the signatures of the catalog can be declared in
CatalogOrders ==
  {VULNERABLE_PATTERNS, Reverse(VULNERABLE_PATTERNS),
   Rotate(VULNERABLE_PATTERNS, RotateBy)}

\* the findings of the scan of each markup under each declared order
ScanInTable ==
  {<<m, {Findings(ScanIn(catalog, m)) : catalog \in CatalogOrders}>> :
     m \in Markups \cup {<<>>}}

ScansOf(markup) == (CHOOSE p \in ScanInTable : p[1] = markup)[2]

\* C12: the scan is deterministic and free of order-dependent duplication:
\* scans of identical markup produce the same findings (types, versions
\* and matched_text, in the same order), whatever the order the signatures
\* are declared in.
C12_ScanOrderIndependent ==
  Did("scan") => ScansOf(html) = {result.vulnerabilities}

\* the scan of a markup with two findings has run
C12_Witness ==
  /\ Did("scan")
  /\ html = M_angular_1_5_after_css
  /\ Len(result.vulnerabilities) = 2
  /\ Cardinality(CatalogOrders) = 3

\* the live and the static findings merged by the run: the static ones are
\* those of the markup, none when it could not be retrieved
MergeInputs ==
  browser_techs \o (IF html = <<>> THEN <<>> ELSE StaticFindingsOf(html))

\* the merged list as the run holds it right after the fusion
Merged == pc = "fcp"

\* C13: in the output of merge_detected_techs the entry of a name has a
\* version whenever a live or static input finding of that name carries
\* one; (react, null, high) merged with (react, 16.3.0, low) yields
\* (react, 16.3.0).
C13_MergeKeepsVersion ==
  Merged =>
    /\ \A i \in 1..Len(MergeInputs) :
         MergeInputs[i].version # None =>
           \E j \in 1..Len(detected_techs) :
             /\ detected_techs[j].name = MergeInputs[i].name
             /\ detected_techs[j].version # None
    /\ (/\ browser_techs = <<[name |-> S_react, version |-> None,
                              confidence |-> "high"]>>
        /\ html = M_react_16_3_0)
         => detected_techs = <<[name |-> S_react, version |-> V_16_3_0]>>

\* an unversioned live react finding has been merged with the versioned
\* static one
C13_Witness ==
  /\ Merged
  /\ browser_techs = <<[name |-> S_react, version |-> None,
                        confidence |-> "high"]>>
  /\ StaticFindingsOf(html) = <<[name |-> S_react, version |-> V_16_3_0,
                                 confidence |-> "low"]>>
  /\ detected_techs = <<[name |-> S_react, version |-> V_16_3_0]>>

\* the call has ended: its result is returned, or an exception has left it
Exited == pc \in {"returned", "raised"}

DigitValue(c) == CHOOSE d \in 0..9 : DigitChars[d + 1] = c

RECURSIVE ParseNat(_)
\* the number a non-empty sequence of digits writes
ParseNat(digits) ==
  IF Len(digits) = 1 THEN DigitValue(digits[1])
  ELSE 10 * ParseNat(SubSeq(digits, 1, Len(digits) - 1))
       + DigitValue(digits[Len(digits)])

\* text is digits, a point, one digit and 's'
IsSecondsText(text) ==
  /\ Len(text) >= 4
  /\ text[Len(text)] = "s"
  /\ text[Len(text) - 2] = "."
  /\ \A i \in (1..(Len(text) - 3)) \cup {Len(text) - 1} : text[i] \in Digits

\* the tenths of a second that text writes
ParseTenths(text) ==
  10 * ParseNat(SubSeq(text, 1, Len(text) - 3))
  + DigitValue(text[Len(text) - 1])

\* C15: load_time is 'N/A' exactly when first_contentful_paint_ms is null
\* and otherwise the FCP in seconds with one decimal followed by 's'; a run
\* with no console error, no vulnerability and an FCP of 1200 ms returns
\* status clean, load_time '1.2s' and vulnerability_detected false.
C15_LoadTime ==
  Returned =>
    /\ result.load_time = S_NA <=> result.first_contentful_paint_ms = None
    /\ result.first_contentful_paint_ms # None =>
         /\ IsSecondsText(result.load_time)
         /\ 100 * ParseTenths(result.load_time)
              - result.first_contentful_paint_ms[1] \in -50..50
    /\ (/\ Classified
        /\ result.console_errors = <<>>
        /\ result.vulnerabilities = <<>>
        /\ result.first_contentful_paint_ms = <<1200>>)
         => /\ result.status = "clean"
            /\ result.load_time = <<"1", ".", "2", "s">>
            /\ ~result.vulnerability_detected

\* a clean run with an FCP of 1200 ms has returned
C15_Witness ==
  /\ Classified
  /\ result.console_errors = <<>>
  /\ result.vulnerabilities = <<>>
  /\ result.first_contentful_paint_ms = <<1200>>
  /\ result.load_time = <<"1", ".", "2", "s">>

\* the live introspector returned (page.evaluate did not raise)
Introspected == Did("introspect")

\* the finding an add call would leave in the returned list
Reported(t) ==
  \E i \in 1..Len(browser_techs) :
    /\ browser_techs[i].name = t.name
    /\ browser_techs[i].version = t.version

\* C16: each detector of the live introspector is isolated: whatever
\* detector throws, the findings of every other detector are in the list
\* the introspector returns, those of the detectors later in the order
\* included.
C16_DetectorsIsolated ==
  Introspected =>
    \A d \in DetectorNames :
      \A i \in 1..Len(Outcome(page, d).adds) :
        Reported(Outcome(page, d).adds[i])

\* the run performed both steps, the first before the second
Before(first, second) ==
  \E i, j \in 1..Len(steps) :
    i < j /\ steps[i] = first /\ steps[j] = second

\* C17: in every run that completes without fault the steps occur in the
\* order navigation, live introspection, markup extraction with the static
\* matching and the fusion, vulnerability scan, FCP sampling,
\* classification, report assembly: the scan comes before the FCP sampling.
C17_StepOrder ==
  (Completed /\ Introspected) =>
    /\ Before("goto_networkidle", "introspect")
    /\ Before("introspect", "content")
    /\ Before("content", "scan")
    /\ Before("scan", "fcp")
    /\ Before("fcp", "classify")
    /\ Before("classify", "assemble")

\* the confidence a technology was detected with in the run: 3 when the
\* live introspector reported it with high confidence, 2 with medium
\* confidence, 1 when only the static matcher found it
DetectedScore(name) ==
  IF \E i \in 1..Len(browser_techs) :
       browser_techs[i].name = name /\ browser_techs[i].confidence = "high"
  THEN 3
  ELSE IF \E i \in 1..Len(browser_techs) :
            browser_techs[i].name = name
            /\ browser_techs[i].confidence = "medium"
       THEN 2
       ELSE 1

\* the technology is named in the tech label of the result
Listed(name) == Contains(ReadableName(name), result.tech)

\* where in the tech label the technology is named
ListedAt(name) ==
  Least({i \in 1..Len(result.tech) :
           OccursAt(ReadableName(name), result.tech, i)})

\* two technologies of the merged list that the tech label both names
ListedPairs ==
  {p \in (1..Len(detected_techs)) \X (1..Len(detected_techs)) :
     /\ detected_techs[p[1]].name # detected_techs[p[2]].name
     /\ Listed(detected_techs[p[1]].name)
     /\ Listed(detected_techs[p[2]].name)
     /\ ~Contains(ReadableName(detected_techs[p[1]].name),
                  ReadableName(detected_techs[p[2]].name))
     /\ ~Contains(ReadableName(detected_techs[p[2]].name),
                  ReadableName(detected_techs[p[1]].name))}

\* C18: in the tech label a technology detected with higher confidence
\* (live high > live medium > static low) is listed before one detected
\* with lower confidence, and of two technologies of equal confidence the
\* one earlier in priority_order is listed first.
C18_TechOrder ==
  Completed =>
    \A p \in ListedPairs :
      /\ DetectedScore(detected_techs[p[1]].name)
           > DetectedScore(detected_techs[p[2]].name)
         => ListedAt(detected_techs[p[1]].name)
              < ListedAt(detected_techs[p[2]].name)
      /\ ( /\ DetectedScore(detected_techs[p[1]].name)
                = DetectedScore(detected_techs[p[2]].name)
           /\ priority_score(detected_techs[p[1]])
                > priority_score(detected_techs[p[2]]) )
         => ListedAt(detected_techs[p[1]].name)
              < ListedAt(detected_techs[p[2]].name)

\* the observation the generator produced in the run, None when it was not
\* called or produced none
Observation ==
  IF collab = None THEN None ELSE generate_technical_observation(collab[1])

\* the generator was called and failed: the imports or the key are
\* missing, or the chain raised
ObservationFault ==
  /\ collab # None
  /\ ~collab[1].available \/ ~collab[1].api_key \/ collab[1].fault

\* C19: a failure of the observation generator never aborts a diagnosis.
\* In diagnose_multiple_sites and in the /diagnose route the step that
\* follows the return of diagnose_site always hands the result on, with
\* every field diagnose_site wrote unchanged and no field added but
\* technical_observation, which is there exactly when
\* vulnerability_detected is true and the generator produced a non-empty
\* observation; a failed generator leaves the result without the field, and
\* the route's last step keeps it that way.
C19_ObservationFaultSwallowed ==
  [][ /\ pc = "returned" =>
           /\ pc' \in {"appended", "save"}
           /\ \A f \in DOMAIN result :
                f \in DOMAIN result' /\ result'[f] = result[f]
           /\ (DOMAIN result') \ (DOMAIN result) \subseteq {"technical_observation"}
           /\ "technical_observation" \in DOMAIN result'
                <=> (result.vulnerability_detected /\ Observation' # <<>>)
           /\ "technical_observation" \in DOMAIN result'
                => result'.technical_observation = Observation'
           /\ ObservationFault' => "technical_observation" \notin DOMAIN result'
      /\ pc = "save" =>
           /\ pc' = "responded"
           /\ \A f \in DOMAIN result :
                f \in DOMAIN result' /\ result'[f] = result[f]
           /\ "technical_observation" \in DOMAIN result'
                <=> "technical_observation" \in DOMAIN result
    ]_vars

\* a result with vulnerabilities went through a caller whose generator
\* failed, and was handed on without an observation
C19_Witness ==
  /\ pc \in {"appended", "responded"}
  /\ result.vulnerability_detected
  /\ ObservationFault
  /\ collab[1].fault
  /\ "technical_observation" \notin DOMAIN result
  /\ result.status = "at_risk"

\* the signature is a generic one: its key contains 'old'
IsGeneric(sig) == Contains(S_old, sig.key)

\* the matches of the signature in the markup that pass the jQuery guard
EligibleMatches(sig, html_text, matches) ==
  {k \in 1..Len(matches) :
     ~(IsJqueryTech(sig.key) /\ ~Contains(S_angularjs, sig.key))
     \/ IsCoreJquery(html_text, matches[k])}

\* the dedup keys of the given matches of the signature
KeysOfMatches(sig, html_lower, matches, eligible) ==
  {VulnKey(sig.key, ExtractVersion(html_lower, matches[k])) : k \in eligible}

\* the dedup keys the matches of the signature produce in the markup
KeysOf(sig, html_text) ==
  KeysOfMatches(sig, Lower(html_text),
                FindIter(sig.pattern, Lower(html_text)),
                EligibleMatches(sig, html_text,
                                FindIter(sig.pattern, Lower(html_text))))

\* the dedup keys of the markup grouped by signature
KeysBySignature(html_text) ==
  [j \in 1..Len(VULNERABLE_PATTERNS) |-> KeysOf(VULNERABLE_PATTERNS[j], html_text)]

\* the dedup keys that a version-specific signature and a generic one both
\* produce in the markup
SharedKeys(keys) ==
  {k \in UNION {keys[j] : j \in 1..Len(keys)} :
     /\ \E j \in 1..Len(keys) :
          ~IsGeneric(VULNERABLE_PATTERNS[j]) /\ k \in keys[j]
     /\ \E j \in 1..Len(keys) :
          IsGeneric(VULNERABLE_PATTERNS[j]) /\ k \in keys[j]}

SharedKeysTable ==
  {<<m, SharedKeys(KeysBySignature(m))>> : m \in Markups \cup {<<>>}}

SharedKeysOf(markup) == (CHOOSE p \in SharedKeysTable : p[1] = markup)[2]

\* the signatures are scanned with the version-specific keys first and the
\* generic ones after them, in lexical order within each group
ScannedInGroups ==
  \A i, j \in 1..Len(pattern_order) :
    i < j =>
      /\ IsGeneric(pattern_order[i]) => IsGeneric(pattern_order[j])
      /\ IsGeneric(pattern_order[i]) = IsGeneric(pattern_order[j])
           => StrLess(pattern_order[i].key, pattern_order[j].key)

\* C20: the signatures are scanned with all keys not containing 'old' first
\* and the keys containing 'old' after them, in lexical order within each
\* group; so when a version-specific signature and a generic '_old' one
\* produce the same dedup key, the finding recorded under that key carries
\* the version-specific type and the generic signature adds none under it.
C20_SpecificTypeWins ==
  Did("scan") =>
    /\ ScannedInGroups
    /\ \A i \in 1..Len(result.vulnerabilities) :
         KeyOfFinding(i) \in SharedKeysOf(html)
           => ~Contains(S_old, result.vulnerabilities[i].type)

\* where the name first occurs among the inputs of the fusion
FirstInput(name) ==
  Least({k \in 1..Len(MergeInputs) : MergeInputs[k].name = name})

\* the first version the inputs of the fusion give for the name, in the
\* order live findings, then static findings; None when they give none
FirstVersion(name) ==
  IF \E k \in 1..Len(MergeInputs) :
       MergeInputs[k].name = name /\ MergeInputs[k].version # None
  THEN MergeInputs[Least({k \in 1..Len(MergeInputs) :
                            /\ MergeInputs[k].name = name
                            /\ MergeInputs[k].version # None})].version
  ELSE None

\* C21: merge_detected_techs returns exactly one entry per distinct name,
\* the names in the order they first occur (live findings first), and the
\* version of an entry is the first non-null version met for its name: no
\* later finding changes it, so of a live and a static version the live one
\* is kept.
C21_OneEntryPerName ==
  Merged =>
    /\ \A i, j \in 1..Len(detected_techs) :
         i # j => detected_techs[i].name # detected_techs[j].name
    /\ \A k \in 1..Len(MergeInputs) :
         \E i \in 1..Len(detected_techs) :
           detected_techs[i].name = MergeInputs[k].name
    /\ \A i \in 1..Len(detected_techs) :
         /\ \E k \in 1..Len(MergeInputs) :
              MergeInputs[k].name = detected_techs[i].name
         /\ detected_techs[i].version = FirstVersion(detected_techs[i].name)
    /\ \A i, j \in 1..Len(detected_techs) :
         i < j => FirstInput(detected_techs[i].name)
                    < FirstInput(detected_techs[j].name)

\* the live introspector found react 17.0.2 and the static matcher react
\* 16.3.0: the merged entry has the live version
C21_Witness ==
  /\ Merged
  /\ browser_techs = <<[name |-> S_react, version |-> V_17_0_2,
                        confidence |-> "high"]>>
  /\ StaticFindingsOf(html) = <<[name |-> S_react, version |-> V_16_3_0,
                                 confidence |-> "low"]>>
  /\ detected_techs = <<[name |-> S_react, version |-> V_17_0_2]>>

\* the keys of tech_map the signature key starts with, an underscore after
\* them
TechnologiesOf(type) ==
  {k \in 1..Len(tech_map) : OccursAt(tech_map[k][1] \o <<"_">>, type, 1)}

\* the technology the signature belongs to: the longest of them
\* (jquery_ui for jquery_ui_old, angularjs for angularjs_v1_5)
TechnologyOf(type) ==
  CHOOSE k \in TechnologiesOf(type) :
    \A j \in TechnologiesOf(type) :
      Len(tech_map[j][1]) <= Len(tech_map[k][1])

\* the label the first finding of a result should give
ExpectedLabel(first_vuln) ==
  tech_map[TechnologyOf(first_vuln.type)][2]
  \o (IF first_vuln.version # S_unknown
      THEN <<" ">> \o first_vuln.version
      ELSE <<>>)

\* C22: when no technologies were detected, the tech label is, for a
\* non-empty vulnerability list, the display name of the technology the
\* signature of the first vulnerability belongs to (jQuery UI for
\* jquery_ui_old), followed by its version unless the version is unknown,
\* and Unknown when there are no vulnerabilities either.
C22_LabelOfFirstVulnerability ==
  (Returned /\ detected_techs = <<>>) =>
    IF result.vulnerabilities = <<>>
    THEN result.tech = S_Unknown
    ELSE result.tech = ExpectedLabel(result.vulnerabilities[1])

\* the libraries whose runtime marker exposes a version on the page, each
\* with that version
ExposedVersions ==
  {m \in {<<S_jquery, page.jquery>>,
          <<S_angularjs, page.angular>>,
          <<S_react, page.hook>>,
          <<S_react, page.React>>,
          <<S_nextjs, page.next>>,
          <<S_bootstrap, page.bootstrap>>,
          <<IF page.template_settings
            THEN <<"u", "n", "d", "e", "r", "s", "c", "o", "r", "e">>
            ELSE <<"l", "o", "d", "a", "s", "h">>, page.lodash>>,
          <<<<"m", "o", "m", "e", "n", "t">>, page.moment>>,
          <<<<"s", "o", "c", "k", "e", "t", "i", "o">>, page.io>>} :
     m[2] # None}

\* C23: whenever the runtime marker of a library exposes a version (jQuery,
\* AngularJS, React through window.React.version or the DevTools hook,
\* Next.js, Bootstrap, Lodash/Underscore, Moment, Socket.io), the live
\* introspector returns a finding of that library with that version and
\* confidence high.
C23_MarkerVersionHigh ==
  Introspected =>
    \A m \in ExposedVersions :
      \E i \in 1..Len(browser_techs) :
        /\ browser_techs[i].name = m[1]
        /\ browser_techs[i].version = m[2]
        /\ browser_techs[i].confidence = "high"

\* the static findings of one technology, in the order of the list
StaticOf(techs, name) == SelectSeq(techs, LAMBDA t : t.name = name)

\* the versions found in the windows of the matches of a pattern, in
\* document order
WindowVersions(html_lower, matches) ==
  [k \in 1..Len(matches) |-> StaticVersion(html_lower, matches[k])]

\* the number of matches up to and including the first versioned one
UpToFirstVersioned(versions) ==
  IF \E k \in 1..Len(versions) : versions[k] # None
  THEN CHOOSE k \in 1..Len(versions) :
         /\ versions[k] # None
         /\ \A h \in 1..(k - 1) : versions[h] = None
  ELSE Len(versions)

\* the findings of one technology are those of its first matches
StaticConforms(of_tech, name, versions) ==
  /\ Len(of_tech) = UpToFirstVersioned(versions)
  /\ \A k \in 1..Len(of_tech) :
       of_tech[k] = [name |-> name, version |-> versions[k],
                     confidence |-> "low"]
  /\ \A k \in 1..Len(of_tech) : of_tech[k].version # None => k = Len(of_tech)

\* the markups whose static findings follow the rule, for every catalog technology
StaticConforming ==
  {m \in Markups :
     \A j \in 1..Len(TECH_DETECTION_PATTERNS) :
       StaticConforms(StaticOf(StaticFindingsOf(m), TECH_DETECTION_PATTERNS[j].key),
                      TECH_DETECTION_PATTERNS[j].key,
                      WindowVersions(Lower(m),
                                     FindIter(TECH_DETECTION_PATTERNS[j].pattern, Lower(m))))}

\* C24: the static findings of a technology are one low-confidence
\* finding per match, in document order, up to and including the first
\* match whose window holds a version; a versioned finding is the last of
\* its technology
C24_StaticUpToFirstVersion ==
  html # <<>> => html \in StaticConforming

\* the retrieved markup has an unversioned React match, then a versioned
\* one, then a further match that is not reported
C24_Witness ==
  /\ Did("content")
  /\ html = M_react_dom_then_16_3_0
  /\ StaticFindingsOf(html) =
       <<[name |-> S_react, version |-> None, confidence |-> "low"],
         [name |-> S_react, version |-> V_16_3_0, confidence |-> "low"]>>
  /\ Len(FindIter(TECH_DETECTION_PATTERNS[3].pattern, Lower(html))) = 3

\* the steps of diagnose_site that assign result["status"]: the run leaves
\* the classification or an except block
WritesStatus ==
  pc \in {"classify", "except_timeout", "except_error"} /\ pc' # pc

\* one step of the run, as far as the status is concerned: only the
\* classification and the two except blocks assign it, each of them finds
\* it 'unknown' and leaves a terminal value, and a terminal value stays
StatusStep ==
  /\ WritesStatus =>
       result.status = "unknown" /\ result'.status \in TerminalStatuses
  /\ ~WritesStatus => result'.status = result.status
  /\ result.status # "unknown" => result'.status = result.status

\* C25: the status is written exactly once in a run that returns, from
\* 'unknown' to a terminal value, and never changes afterwards
C25_StatusWrittenOnce ==
  /\ [][StatusStep]_vars
  /\ [](Returned => result.status \in TerminalStatuses)

\* a run returned on the timeout path, the markup was retrieved and a
\* console error was captured after the status was written
C25_Witness ==
  /\ Returned
  /\ result.status = "timeout"
  /\ html # <<>>
  /\ result.console_errors # <<>>

\* the result carries an error field
HasError == "error" \in DOMAIN result

\* C26: a returned result has an error field exactly when its status is
\* timeout or error, and with status error the field is the text of the
\* exception the run caught
C26_ErrorFieldIffFault ==
  Returned =>
    /\ HasError <=> result.status \in {"timeout", "error"}
    /\ result.status = "error" =>
         /\ exc # None
         /\ exc[1].type # "TimeoutError"
         /\ result.error = exc[1].text

\* a run returned after a fault that is not a timeout, with its text
C26_Witness ==
  /\ Returned
  /\ result.status = "error"
  /\ HasError
  /\ result.error = "net::ERR_NAME_NOT_RESOLVED"

\* the paint-timing script is running inside page.evaluate
Sampling == pc = "fcp_wait"

\* the value the sampler owes: the rounded start time of the entry that
\* existed when it was queried, else that of the first entry its observer
\* saw, else null
SampledValue ==
  IF sampler.entry # <<>> THEN <<MathRound(sampler.entry[1].startTime)>>
  ELSE IF sampler.observed # <<>>
  THEN <<MathRound(sampler.observed[1].startTime)>>
  ELSE None

\* the entries the sampler takes a value from are first-contentful-paint
\* entries, and the observer is consulted only without an existing entry
SampledEntries ==
  /\ \A e \in {sampler.entry, sampler.observed} :
       e # <<>> => e[1].name = S_first_contentful_paint
  /\ sampler.entry # <<>> => sampler.observed = <<>> /\ sampler.timer = "unset"

\* a pending sampler has its timer armed, so that it settles at the latest
\* when the timer fires
SamplerSettles == sampler.settled \/ ENABLED TimerFires

\* page.evaluate returns the value the promise settled with
FcpReturnStep ==
  (Sampling /\ pc' # pc) =>
    /\ sampler.settled
    /\ result'.first_contentful_paint_ms = sampler.value

NavigationFailed == \E i \in 1..Len(nav) : nav[i] = "error"

\* the run is past its except block and has not raised
AfterExcept == pc \in {"close", "assemble", "returned"}

\* C28: the DOM-content-loaded attempt is made exactly when the
\* network-idle attempt timed out; a navigation failure that is not a
\* timeout is the last attempt of the run, no later step of the run is
\* performed, and the result gets status error and the text of the failure
C28_SecondAttemptIffTimeout ==
  /\ Len(nav) <= 2
  /\ Len(nav) = 2 => nav[1] = "timeout"
  /\ nav = <<"timeout">> => pc = "goto2"
  /\ Did("goto_domcontentloaded") <=> Len(nav) = 2
  /\ NavigationFailed =>
       /\ nav[Len(nav)] = "error"
       /\ \A i \in 1..Len(steps) :
            steps[i] \in {"goto_networkidle", "goto_domcontentloaded",
                          "assemble"}
       /\ pc = "except_error" => exc # None /\ exc[1].type # "TimeoutError"
       /\ AfterExcept =>
            /\ result.status = "error"
            /\ result.error = exc[1].text

\* a run returned after a first attempt that timed out and a second one
\* that failed otherwise
C28_Witness ==
  /\ Returned
  /\ nav = <<"timeout", "error">>
  /\ result.status = "error"
  /\ result.error = "net::ERR_NAME_NOT_RESOLVED"

\* the type of the i-th finding of the result: the key of its signature
TypeOfFinding(i) == result.vulnerabilities[i].type

\* the type is the key of a generic signature
OldType(i) == Contains(S_old, TypeOfFinding(i))

\* C29: the vulnerabilities list holds at most one finding per signature
\* (no two findings share a type), and its findings are in scan order: the
\* types without 'old' in lexical order, then the types with 'old' in
\* lexical order
C29_OnePerSignatureInScanOrder ==
  \A i, j \in 1..Len(result.vulnerabilities) :
    i < j =>
      /\ TypeOfFinding(i) # TypeOfFinding(j)
      /\ OldType(i) => OldType(j)
      /\ OldType(i) = OldType(j) => StrLess(TypeOfFinding(i), TypeOfFinding(j))
      /\ \E k \in 1..Len(VULNERABLE_PATTERNS) :
           VULNERABLE_PATTERNS[k].key = TypeOfFinding(i)

\* a returned result holds the finding of a version-specific signature
\* followed by the finding of a generic one
C29_Witness ==
  /\ Returned
  /\ Len(result.vulnerabilities) = 2
  /\ ~OldType(1)
  /\ OldType(2)

\* the run leaves one of its except blocks
LeavesExcept == pc \in {"except_timeout", "except_error"} /\ pc' = "close"

\* every entry of the list is a static finding of the markup
StaticAlone(techs, markup) ==
  /\ techs = merge_detected_techs(<<>>, StaticFindingsOf(markup))
  /\ \A i \in 1..Len(techs) :
       \E k \in 1..Len(StaticFindingsOf(markup)) :
         StaticFindingsOf(markup)[k].name = techs[i].name

\* one step of the run on its timeout and error paths: the except block
\* either retrieves a markup and replaces the list by its static findings,
\* or retrieves none and keeps the list; from there to the return the list
\* stays as it is, and the label is made of it
FaultPathStep ==
  /\ LeavesExcept =>
       \/ html' \in Markups /\ StaticAlone(detected_techs', html')
       \/ html' = html /\ detected_techs' = detected_techs
  /\ (pc \in {"close", "assemble"} /\ "error" \in DOMAIN result) =>
       detected_techs' = detected_techs
  /\ (pc = "assemble" /\ pc' = "returned" /\ "error" \in DOMAIN result) =>
       result'.tech = format_tech_name(result.vulnerabilities, detected_techs)

\* C30: on the timeout and error paths the final technology list is the
\* static findings of the markup alone when the markup can be retrieved,
\* and the list computed before the fault when it cannot; it is the list
\* the tech label is made of
C30_FaultPathTechs == [][FaultPathStep]_vars

\* a run returned on the error path after the live introspector had found
\* technologies: the final list holds static findings only, and none of the
\* lists the run can hold before a fault
C30_Witness ==
  /\ Returned
  /\ result.status = "error"
  /\ Did("introspect")
  /\ browser_techs # <<>>
  /\ html = M_react_16_3_0
  /\ detected_techs # <<>>
  /\ StaticAlone(detected_techs, html)
  /\ \A i \in 1..Len(browser_techs) :
       \A k \in 1..Len(detected_techs) :
         detected_techs[k].name # browser_techs[i].name
  /\ result.tech = LabelOfTechs(detected_techs)

====
